---- MODULE Spec2Model ----
(***************************************************************************)
(* Realtime session relay and function-call dispatch of src/src/server.py  *)
(* (the /ws endpoint, the two pumps and RealtimeAPIProxy).                 *)
(*                                                                         *)
(* One process-wide RealtimeAPIProxy object `proxy` holds the upstream     *)
(* handle `openai_ws` and the dict `client_connections`; every /ws         *)
(* connection runs websocket_endpoint, which starts the two pump tasks     *)
(* handle_client_messages and handle_openai_messages and waits for both    *)
(* with asyncio.gather.  A step of the model is the code a coroutine runs  *)
(* between two suspension points (await).                                  *)
(***************************************************************************)
EXTENDS Integers, Sequences, FiniteSets, TLC

\* ---- bounds ----------------------------------------------------------
NumSessions == 2        \* client connections that may be opened
NumCallIds == 2         \* distinct call identifiers upstream may use
MaxUpEvents == 2        \* upstream events and client frames consumed (Spec)
MaxFrames == 1          \* client text frames consumed by the pumps
MaxTurnEvents == 6      \* upstream events consumed by the pump (TurnSpec)
MaxPairEvents == 1      \* upstream events and client frames consumed (PairSpec)
MaxClientFrames == 3    \* client frames and upstream events consumed (ClientSpec)
MaxErrorEvents == 2     \* upstream events consumed by the pump (ErrorSpec)
MaxHandshakeEvents == 3 \* upstream events consumed by the pump (HandshakeSpec)
MaxCapEvents == 1       \* function calls dispatched (CapSpec)
MaxSettingsFrames == 2  \* update_settings frames consumed (SettingsSpec)
MaxDeltas == 2          \* deltas upstream puts on a transport (DeltaSpec)
MaxDeltaEvents == 3     \* upstream events consumed by the pump (DeltaSpec)
MaxUpdateFrames == 2    \* update_settings frames read (UpdateSpec)
MaxDemoCalls == 2       \* functions executed by the orchestrator (DemoSpec)
MaxStored == 2          \* sessions the memory manager creates (MemorySpec)
MaxDateCalls == 2       \* dates parsed (DateSpec)
MaxDay == 6             \* days on which a date is parsed (DateSpec)
MaxClock == 4           \* ticks of the memory manager's clock (MemorySpec)

Sessions == 1..NumSessions
\* The transport opened by session s's connect_to_openai is named s.
Transports == Sessions
CallIds == 1..NumCallIds
None == 0

KnownFunctions == {"search_knowledge_base", "execute_workflow", "call_external_api"}
\* Shape of the `arguments` string of a function-call event: a JSON object,
\* valid JSON that is not an object, or not JSON at all.
ArgShapes == {"object", "nonobject", "malformed"}

VARIABLES
    openai_ws,            \* proxy.openai_ws: None or the current transport
    client_connections,   \* keys of proxy.client_connections
    ep,                   \* position of websocket_endpoint per session
    cstate,               \* client transport: "none", "open", "gone" (peer left), "closed" (server closed it)
    tstate,               \* upstream transport: "none", "open", "closed"
    closers,              \* per transport, the sessions whose teardown called close() on it
    cpump,                \* position of handle_client_messages per session
    upump,                \* position of handle_openai_messages per session
    iter,                 \* transport the `async for` of handle_openai_messages iterates
    call,                 \* function call being handled by the upstream pump
    last_user_transcript,
    pending_user_transcript,
    loopBlocked,          \* the event loop is stuck inside a synchronous call
    upSent,               \* per session, the messages its tasks sent upstream, in order
    clog,                 \* per session, the messages delivered to its client
    invoked,              \* per session and call id, capability invocations started
    faulted,              \* per session, a fault was raised while dispatching a call
    turn,                 \* per session, what the current turn has seen
    seen,                 \* per session, upstream events read by its pump
    lastEv,               \* per session, type of the event its pump read last
    nUp,                  \* upstream events consumed so far
    nFrames,              \* client frames consumed so far
    acked,                \* per session, its pump has read a session.updated event
    lastFrame,            \* per session, type of the frame its client pump read last
    cap,                  \* the capability evaluated last: its inputs and the dict it returned
    orphaned,             \* per session, a transport of it closed while a call of it was executing
    emitted,              \* per transport, the deltas upstream has put on it, in order
    taken,                \* per transport, how many of them a pump has read
    upstream_session,     \* per transport, voice, temperature and instructions of the upstream session
    memory_manager        \* the MemoryManager: its clock, active_sessions, memory_store and Redis keys

vars == <<openai_ws, client_connections, ep, cstate, tstate, closers, cpump, upump,
          iter, call, last_user_transcript, pending_user_transcript, loopBlocked,
          upSent, clog, invoked, faulted, turn, seen, lastEv, nUp, nFrames,
          acked, lastFrame, cap, orphaned, emitted, taken, upstream_session, memory_manager>>

NoCall == [id |-> None, fn |-> "", args |-> ""]
NoCap == [stage |-> "idle"]
\* The memory manager before MemoryManager() is called.  Times are counted
\* in ticks of eight hours.
NoManager ==
    [constructed |-> FALSE, redis_client |-> FALSE, now |-> 0, created |-> 0,
     active_sessions |-> <<>>, memory_store |-> <<>>, redis |-> <<>>,
     cleaned |-> 0, removed |-> {}]
NoSession == [voice |-> "", temperature |-> "", instructions |-> <<>>]
NewTurn == [started |-> FALSE, partial |-> FALSE, stopped |-> FALSE, created |-> FALSE, stoppedFirst |-> FALSE,
            delta |-> FALSE, finals |-> 0, finalsAtDelta |-> 0, settled |-> FALSE]

Init ==
    /\ openai_ws = None
    /\ client_connections = {}
    /\ ep = [s \in Sessions |-> "idle"]
    /\ cstate = [s \in Sessions |-> "none"]
    /\ tstate = [t \in Transports |-> "none"]
    /\ closers = [t \in Transports |-> {}]
    /\ cpump = [s \in Sessions |-> "none"]
    /\ upump = [s \in Sessions |-> "none"]
    /\ iter = [s \in Sessions |-> None]
    /\ call = [s \in Sessions |-> NoCall]
    /\ last_user_transcript = [s \in Sessions |-> ""]
    /\ pending_user_transcript = [s \in Sessions |-> FALSE]
    /\ loopBlocked = FALSE
    /\ upSent = [s \in Sessions |-> <<>>]
    /\ clog = [s \in Sessions |-> <<>>]
    /\ invoked = [s \in Sessions |-> [c \in CallIds |-> 0]]
    /\ faulted = [s \in Sessions |-> FALSE]
    /\ turn = [s \in Sessions |-> NewTurn]
    /\ seen = [s \in Sessions |-> 0]
    /\ lastEv = [s \in Sessions |-> ""]
    /\ nUp = 0
    /\ nFrames = 0
    /\ acked = [s \in Sessions |-> FALSE]
    /\ lastFrame = [s \in Sessions |-> ""]
    /\ cap = NoCap
    /\ orphaned = [s \in Sessions |-> FALSE]
    /\ emitted = [t \in Transports |-> <<>>]
    /\ taken = [t \in Transports |-> 0]
    /\ upstream_session = [t \in Transports |-> NoSession]
    /\ memory_manager = NoManager

\* ---- helpers ---------------------------------------------------------

UpMsg(t, type, c, s, res) == [t |-> t, type |-> type, call |-> c, by |-> s, res |-> res]
CMsg(type, text, role) == [type |-> type, text |-> text, role |-> role]

\* `await ws.send(...)` on a websockets connection: raises ConnectionClosed
\* unless the connection is open.
UpOpen(t) == t # None /\ tstate[t] = "open"

\* websocket.send_json on the client transport.  While the peer is
\* connected the message is delivered.  After the peer has left the ASGI
\* server either raises or drops the message, depending on the build; `r`
\* is the outcome ("ok" or "raise").
ClientSendOutcomes(s) == IF cstate[s] = "open" THEN {"ok"} ELSE {"ok", "raise"}
Delivered(s, msgs) == IF cstate[s] = "open" THEN clog[s] \o msgs ELSE clog[s]

\* Position of the upstream pump of s when it (re-)enters `async for` on
\* transport t: the iteration ends when the transport is closed, and recv()
\* raises when another coroutine is already waiting in recv() on the same
\* connection.
EnterRecv(s, t) ==
    IF tstate[t] # "open" THEN "done"
    ELSE IF \E o \in Sessions \ {s} : upump[o] = "recv" /\ iter[o] = t THEN "done"
    ELSE "recv"

\* Position of the client pump of s when it (re-)enters receive_text():
\* raises WebSocketDisconnect once the peer has left.
EnterCRecv(s) == IF cstate[s] = "open" THEN "recv" ELSE "done"

\* Pumps suspended in recv() on transport t observe its close.
AfterClose(t, pu) ==
    [s \in Sessions |-> IF pu[s] = "recv" /\ iter[s] = t THEN "done" ELSE pu[s]]

\* ---- session configuration ------------------------------------------------

\* dict.get(k, dflt)
Get(d, k, dflt) == IF k \in DOMAIN d THEN d[k] ELSE dflt

\* JSON null / Python None as a value of a setting.
JsonNull == "<null>"

\* The prompt configure_openai_session builds, and the shorter one the
\* update_settings branch builds (without the endpoint hints and the
\* closing sentence).
ConfigureBase == <<"assistant-with-functions", "endpoint-hints", "be-conversational">>
SettingsBase == <<"assistant-with-functions">>

\* The voice sent when the caller names none.
DefaultVoice == "alloy"

\* The temperature sent when the caller names none.
DefaultTemperature == "0.7"

\* `if custom_instructions:`
Truthy(v) == v # JsonNull /\ v # ""

\* The session fields of the session.update configure_openai_session
\* sends.
configure_openai_session(voice, temperature, custom_instructions) ==
    [voice |-> IF Truthy(voice) THEN voice ELSE DefaultVoice,
     temperature |-> IF temperature # JsonNull THEN temperature ELSE DefaultTemperature,
     instructions |-> ConfigureBase
                        \o (IF Truthy(custom_instructions)
                            THEN <<"Additional instructions:", custom_instructions>>
                            ELSE <<"normal-pace">>)
                        \o <<"explain-functions">>]

\* The session fields of the session.update the update_settings branch
\* builds from the settings of the frame.
session_update(settings) ==
    [voice |-> Get(settings, "voice", DefaultVoice),
     temperature |-> IF Get(settings, "temperature", JsonNull) # JsonNull
                     THEN settings["temperature"] ELSE DefaultTemperature,
     instructions |-> SettingsBase
                        \o (IF Truthy(Get(settings, "instructions", ""))
                            THEN <<"Additional instructions:", settings["instructions"]>>
                            ELSE <<>>)]

\* message.get("settings", {}) of a frame without settings.
EmptySettings == [k \in {} |-> ""]

\* ---- websocket_endpoint ------------------------------------------------

\* websocket.accept(); session_id = uuid4(); client_connections[session_id] = websocket
Accept(s) ==
    /\ ~loopBlocked
    /\ UNCHANGED <<acked, lastFrame, cap, orphaned, emitted, taken, upstream_session, memory_manager>>
    /\ ep[s] = "idle"
    /\ ep' = [ep EXCEPT ![s] = "accepted"]
    /\ cstate' = [cstate EXCEPT ![s] = "open"]
    /\ client_connections' = client_connections \cup {s}
    /\ UNCHANGED <<openai_ws, tstate, closers, cpump, upump, iter, call, last_user_transcript,
                   pending_user_transcript, loopBlocked, upSent, clog, invoked, faulted, turn,
                   seen, lastEv, nUp, nFrames>>

\* connect_to_openai succeeds: the new connection is stored in
\* proxy.openai_ws and configure_openai_session sends session.update on it;
\* connect_to_openai returns True without waiting for any event from
\* upstream.  cfg is the outcome of that send: "sent", or "failed" when the
\* connection has dropped by then (the exception is logged and swallowed,
\* and connect_to_openai still returns True).
ConnectOk(s, cfg) ==
    /\ ~loopBlocked
    /\ UNCHANGED <<acked, lastFrame, cap, orphaned, emitted, taken, memory_manager>>
    /\ ep[s] = "accepted"
    /\ tstate[s] = "none"
    /\ openai_ws' = s
    /\ IF cfg = "sent"
       THEN /\ tstate' = [tstate EXCEPT ![s] = "open"]
            /\ upSent' = [upSent EXCEPT ![s] = Append(@, UpMsg(s, "session.update", None, s, ""))]
            /\ upstream_session' = [upstream_session EXCEPT
                                       ![s] = configure_openai_session(JsonNull, JsonNull, JsonNull)]
       ELSE /\ tstate' = [tstate EXCEPT ![s] = "closed"]
            /\ UNCHANGED <<upSent, upstream_session, memory_manager>>
    /\ ep' = [ep EXCEPT ![s] = "connected"]
    /\ UNCHANGED <<client_connections, cstate, closers, cpump, upump, iter, call,
                   last_user_transcript, pending_user_transcript, loopBlocked, clog, invoked,
                   faulted, turn, seen, lastEv, nUp, nFrames>>

\* connect_to_openai returns False (no API key, or websockets.connect
\* raised); the endpoint sends an error to the client and closes the client
\* transport.  A raise of send_json leaves the endpoint.
ConnectFail(s, r) ==
    /\ ~loopBlocked
    /\ UNCHANGED <<acked, lastFrame, cap, orphaned, emitted, taken, upstream_session, memory_manager>>
    /\ ep[s] = "accepted"
    /\ r \in ClientSendOutcomes(s)
    /\ IF r = "raise"
       THEN /\ ep' = [ep EXCEPT ![s] = "crashed"]
            /\ UNCHANGED <<clog, cstate>>
       ELSE /\ ep' = [ep EXCEPT ![s] = "failed"]
            /\ clog' = [clog EXCEPT ![s] = Delivered(s, <<CMsg("error", "", "")>>)]
            /\ cstate' = [cstate EXCEPT ![s] = "closed"]
    /\ UNCHANGED <<openai_ws, client_connections, tstate, closers, cpump, upump, iter, call,
                   last_user_transcript, pending_user_transcript, loopBlocked, upSent, invoked,
                   faulted, turn, seen, lastEv, nUp, nFrames>>

\* send_json({"type": "connected"}), then both pump tasks are created and
\* the endpoint waits in asyncio.gather.  send_json is outside the try: a
\* raise leaves the endpoint without running the finally block.
SendConnected(s, r) ==
    /\ ~loopBlocked
    /\ UNCHANGED <<acked, lastFrame, cap, orphaned, emitted, taken, upstream_session, memory_manager>>
    /\ ep[s] = "connected"
    /\ r \in ClientSendOutcomes(s)
    /\ IF r = "raise"
       THEN /\ ep' = [ep EXCEPT ![s] = "crashed"]
            /\ UNCHANGED <<clog, cpump, upump>>
       ELSE /\ ep' = [ep EXCEPT ![s] = "running"]
            /\ clog' = [clog EXCEPT ![s] = Delivered(s, <<CMsg("connected", "", "")>>)]
            /\ cpump' = [cpump EXCEPT ![s] = "start"]
            /\ upump' = [upump EXCEPT ![s] = "start"]
    /\ UNCHANGED <<openai_ws, client_connections, cstate, tstate, closers, iter, call,
                   last_user_transcript, pending_user_transcript, loopBlocked, upSent, invoked,
                   faulted, turn, seen, lastEv, nUp, nFrames>>

GatherFirstCompleted == "FIRST_COMPLETED"

\* asyncio.gather returns when all of its awaitables are done.
GatherReturnsWhen == "ALL_COMPLETED"

\* asyncio.gather(client_task, openai_task) returns once both tasks are done.
GatherDone(s) ==
    IF GatherReturnsWhen = "ALL_COMPLETED"
    THEN cpump[s] = "done" /\ upump[s] = "done"
    ELSE cpump[s] = "done" \/ upump[s] = "done"

\* The transport the finally block closes: whatever proxy.openai_ws holds.
TeardownTarget(s) == openai_ws

\* finally: if proxy.openai_ws: await proxy.openai_ws.close()
TeardownClose(s) ==
    /\ ~loopBlocked
    /\ UNCHANGED <<acked, lastFrame, cap, orphaned, emitted, taken, upstream_session, memory_manager>>
    /\ ep[s] = "running"
    /\ GatherDone(s)
    /\ ep' = [ep EXCEPT ![s] = "closing"]
    /\ LET t == TeardownTarget(s) IN
       IF t # None
       THEN /\ tstate' = [tstate EXCEPT ![t] = "closed"]
            /\ closers' = [closers EXCEPT ![t] = @ \cup {s}]
            /\ upump' = AfterClose(t, upump)
       ELSE UNCHANGED <<tstate, closers, upump>>
    /\ UNCHANGED <<openai_ws, client_connections, cstate, cpump, iter, call,
                   last_user_transcript, pending_user_transcript, loopBlocked, upSent, clog,
                   invoked, faulted, turn, seen, lastEv, nUp, nFrames>>

\* finally: del proxy.client_connections[session_id]
TeardownDel(s) ==
    /\ ~loopBlocked
    /\ UNCHANGED <<acked, lastFrame, cap, orphaned, emitted, taken, upstream_session, memory_manager>>
    /\ ep[s] = "closing"
    /\ ep' = [ep EXCEPT ![s] = "closed"]
    /\ client_connections' = client_connections \ {s}
    /\ UNCHANGED <<openai_ws, cstate, tstate, closers, cpump, upump, iter, call,
                   last_user_transcript, pending_user_transcript, loopBlocked, upSent, clog,
                   invoked, faulted, turn, seen, lastEv, nUp, nFrames>>

\* ---- environment: the peers close their transports ------------------------

\* The browser goes away: a pending receive_text() raises.
ClientDisconnect(s) ==
    /\ ~loopBlocked
    /\ UNCHANGED <<acked, lastFrame, cap, emitted, taken, upstream_session, memory_manager>>
    /\ orphaned' = [orphaned EXCEPT ![s] = @ \/ upump[s] \in {"fc_wait", "fc_trigger"}]
    /\ cstate[s] = "open"
    /\ cstate' = [cstate EXCEPT ![s] = "gone"]
    /\ cpump' = [cpump EXCEPT ![s] = IF @ = "recv" THEN "done" ELSE @]
    /\ UNCHANGED <<openai_ws, client_connections, ep, tstate, closers, upump, iter, call,
                   last_user_transcript, pending_user_transcript, loopBlocked, upSent, clog,
                   invoked, faulted, turn, seen, lastEv, nUp, nFrames>>

\* The upstream service closes connection t: a pending iteration ends.
UpstreamClose(t) ==
    /\ ~loopBlocked
    /\ UNCHANGED <<acked, lastFrame, cap, emitted, taken, upstream_session, memory_manager>>
    /\ orphaned' = [s \in Sessions |->
                       orphaned[s] \/ (iter[s] = t /\ upump[s] \in {"fc_wait", "fc_trigger"})]
    /\ tstate[t] = "open"
    /\ tstate' = [tstate EXCEPT ![t] = "closed"]
    /\ upump' = AfterClose(t, upump)
    /\ UNCHANGED <<openai_ws, client_connections, ep, cstate, closers, cpump, iter, call,
                   last_user_transcript, pending_user_transcript, loopBlocked, upSent, clog,
                   invoked, faulted, turn, seen, lastEv, nUp, nFrames>>

\* ---- handle_client_messages ----------------------------------------------

\* The task starts and waits in receive_text().
CPumpStart(s) ==
    /\ ~loopBlocked
    /\ UNCHANGED <<acked, lastFrame, cap, orphaned, emitted, taken, upstream_session, memory_manager>>
    /\ cpump[s] = "start"
    /\ cpump' = [cpump EXCEPT ![s] = EnterCRecv(s)]
    /\ UNCHANGED <<openai_ws, client_connections, ep, cstate, tstate, closers, upump, iter, call,
                   last_user_transcript, pending_user_transcript, loopBlocked, upSent, clog,
                   invoked, faulted, turn, seen, lastEv, nUp, nFrames>>

\* The two sends of send_text_to_openai, in program order.
TextSends == <<"conversation.item.create", "response.create">>

\* A text.input frame: send_text_to_openai sends conversation.item.create
\* on proxy.openai_ws; a raise of send ends the pump.
ClientTextInput(s, maxf, max) ==
    /\ ~loopBlocked
    /\ lastFrame' = [lastFrame EXCEPT ![s] = "text.input"]
    /\ UNCHANGED <<acked, cap, orphaned, emitted, taken, upstream_session, memory_manager>>
    /\ cpump[s] = "recv"
    /\ cstate[s] = "open"
    /\ nFrames < maxf
    /\ nUp + nFrames < max
    /\ nFrames' = nFrames + 1
    /\ IF openai_ws = None
       THEN UNCHANGED <<cpump, upSent>>
       ELSE IF UpOpen(openai_ws)
       THEN /\ upSent' = [upSent EXCEPT ![s] = Append(@, UpMsg(openai_ws, TextSends[1], None, s, "text.input"))]
            /\ cpump' = [cpump EXCEPT ![s] = "text2"]
       ELSE /\ cpump' = [cpump EXCEPT ![s] = "done"]
            /\ UNCHANGED upSent
    /\ UNCHANGED <<openai_ws, client_connections, ep, cstate, tstate, closers, upump, iter, call,
                   last_user_transcript, pending_user_transcript, loopBlocked, clog, invoked,
                   faulted, turn, seen, lastEv, nUp>>

\* send_text_to_openai, second send: response.create on proxy.openai_ws.
ClientTextTrigger(s) ==
    /\ ~loopBlocked
    /\ UNCHANGED <<acked, lastFrame, cap, orphaned, emitted, taken, upstream_session, memory_manager>>
    /\ cpump[s] = "text2"
    /\ IF UpOpen(openai_ws)
       THEN /\ upSent' = [upSent EXCEPT ![s] = Append(@, UpMsg(openai_ws, TextSends[2], None, s, "text.input"))]
            /\ cpump' = [cpump EXCEPT ![s] = EnterCRecv(s)]
       ELSE /\ cpump' = [cpump EXCEPT ![s] = "done"]
            /\ UNCHANGED upSent
    /\ UNCHANGED <<openai_ws, client_connections, ep, cstate, tstate, closers, upump, iter, call,
                   last_user_transcript, pending_user_transcript, loopBlocked, clog, invoked,
                   faulted, turn, seen, lastEv, nUp, nFrames>>


\* Frames handled in one step of the client pump.
\*  - "malformed": the text is not JSON; json.loads raises inside the try
\*    that encloses the receive loop, and the pump returns;
\*  - "nonobject": JSON that is not an object; message.get raises likewise;
\*  - "unknown": a JSON object whose type matches no branch of
\*    handle_client_message, which returns without doing anything;
\*  - "audio.webm": audio.input with format webm: nothing goes upstream;
\*    send_to_client raises (see FcTrigger), and so does the send_to_client
\*    of the except clause, which ends the pump;
\*  - "reset_audio_state" / "recording_stopped": one send on proxy.openai_ws.
OneStepFrames ==
    {"malformed", "nonobject", "unknown", "audio.webm", "reset_audio_state", "recording_stopped"}

\* update_settings frames: the `settings` of the frame are a JSON object, or
\* another JSON value (settings.get then raises inside the try of the
\* branch, before anything is sent).  A raise of the send, or of the
\* send_to_client that follows it, is caught by the same try.
SettingsFrames == {"update_settings", "update_settings.nonobject"}

UnknownSendsCommit == <<"input_audio_buffer.commit">>

\* What handle_client_message sends upstream for a frame no branch matches.
UnknownSends == <<>>

\* The upstream messages a one-step frame produces.
FrameSends(f) ==
    CASE f = "reset_audio_state" -> <<"input_audio_buffer.clear">>
      [] f = "recording_stopped" -> <<"input_audio_buffer.commit">>
      [] f = "unknown" -> UnknownSends
      [] f = "update_settings" -> <<"session.update">>
      [] OTHER -> <<>>

\* The frame ends the pump whatever the transports do.
FrameRaises(f) == f \in {"malformed", "nonobject", "audio.webm"}

\* The branch of the frame catches a raise of its send.
FrameCatches(f) == f \in SettingsFrames

Frame(s, f, settings, maxf) ==
    /\ ~loopBlocked
    /\ cpump[s] = "recv"
    /\ cstate[s] = "open"
    /\ f \in OneStepFrames \cup SettingsFrames
    /\ nFrames < maxf
    /\ nUp + nFrames < maxf
    /\ nFrames' = nFrames + 1
    /\ lastFrame' = [lastFrame EXCEPT ![s] = f]
    /\ IF FrameRaises(f)
       THEN /\ cpump' = [cpump EXCEPT ![s] = "done"]
            /\ UNCHANGED <<upSent, upstream_session, memory_manager>>
       ELSE IF FrameSends(f) = <<>> \/ openai_ws = None
       THEN UNCHANGED <<cpump, upSent, upstream_session, memory_manager>>
       ELSE IF UpOpen(openai_ws)
       THEN /\ upSent' = [upSent EXCEPT ![s] = Append(@, UpMsg(openai_ws, FrameSends(f)[1], None, s, f))]
            /\ upstream_session' = IF f = "update_settings"
                                   THEN [upstream_session EXCEPT ![openai_ws] = session_update(settings)]
                                   ELSE upstream_session
            /\ UNCHANGED cpump
       ELSE IF FrameCatches(f)
       THEN UNCHANGED <<cpump, upSent, upstream_session, memory_manager>>
       ELSE /\ cpump' = [cpump EXCEPT ![s] = "done"]
            /\ UNCHANGED <<upSent, upstream_session, memory_manager>>
    /\ UNCHANGED <<openai_ws, client_connections, ep, cstate, tstate, closers, upump, iter, call,
                   last_user_transcript, pending_user_transcript, loopBlocked, clog, invoked,
                   faulted, turn, seen, lastEv, nUp, acked,
                   cap, orphaned, emitted, taken, memory_manager>>

\* A frame that carries no settings.
ClientFrame(s, f, maxf) == Frame(s, f, EmptySettings, maxf)

\* The settings an update_settings frame may carry: any of voice,
\* temperature and instructions, each present or omitted.
SettingsValues(k) ==
    CASE k = "voice" -> {"echo"}
      [] k = "temperature" -> {"0.9", JsonNull}
      [] k = "instructions" -> {"be brief"}

SettingsChoices ==
    UNION {{st \in [K -> {"echo", "0.9", JsonNull, "be brief"}] : \A k \in K : st[k] \in SettingsValues(k)} :
             K \in SUBSET {"voice", "temperature", "instructions"}}

\* An update_settings frame with settings.
UpdateSettings(s, settings, maxf) == Frame(s, "update_settings", settings, maxf)

\* The turn detection every session.update of configure_openai_session asks
\* for; no other message of the server changes it.
TurnDetection == "server_vad"

\* The sends of forward_audio_to_openai for a pcm16 chunk, in program
\* order: the chunk is appended and the buffer committed, whatever the
\* turn detection of the session (always server_vad) is.
AudioSends == <<"input_audio_buffer.append", "input_audio_buffer.commit">>

\* An audio.input frame with pcm16 audio: forward_audio_to_openai up to the
\* first send.  A raise of send is caught there; the except clause calls
\* send_to_client, whose raise ends the pump.
ClientAudioInput(s, maxf) ==
    /\ ~loopBlocked
    /\ cpump[s] = "recv"
    /\ cstate[s] = "open"
    /\ nFrames < maxf
    /\ nUp + nFrames < maxf
    /\ nFrames' = nFrames + 1
    /\ lastFrame' = [lastFrame EXCEPT ![s] = "audio.input"]
    /\ IF openai_ws = None
       THEN UNCHANGED <<cpump, upSent>>
       ELSE IF UpOpen(openai_ws)
       THEN /\ upSent' = [upSent EXCEPT ![s] = Append(@, UpMsg(openai_ws, AudioSends[1], None, s, "audio.input"))]
            /\ cpump' = [cpump EXCEPT ![s] = IF Len(AudioSends) > 1 THEN "audio2" ELSE "recv"]
       ELSE /\ cpump' = [cpump EXCEPT ![s] = "done"]
            /\ UNCHANGED upSent
    /\ UNCHANGED <<openai_ws, client_connections, ep, cstate, tstate, closers, upump, iter, call,
                   last_user_transcript, pending_user_transcript, loopBlocked, clog, invoked,
                   faulted, turn, seen, lastEv, nUp, acked,
                   cap, orphaned, emitted, taken, upstream_session, memory_manager>>

\* forward_audio_to_openai, second send.
ClientAudioCommit(s) ==
    /\ ~loopBlocked
    /\ UNCHANGED <<acked, lastFrame, cap, orphaned, emitted, taken, upstream_session, memory_manager>>
    /\ cpump[s] = "audio2"
    /\ IF UpOpen(openai_ws)
       THEN /\ upSent' = [upSent EXCEPT ![s] = Append(@, UpMsg(openai_ws, AudioSends[2], None, s, "audio.input"))]
            /\ cpump' = [cpump EXCEPT ![s] = EnterCRecv(s)]
       ELSE /\ cpump' = [cpump EXCEPT ![s] = "done"]
            /\ UNCHANGED upSent
    /\ UNCHANGED <<openai_ws, client_connections, ep, cstate, tstate, closers, upump, iter, call,
                   last_user_transcript, pending_user_transcript, loopBlocked, clog, invoked,
                   faulted, turn, seen, lastEv, nUp, nFrames>>

\* ---- handle_openai_messages ----------------------------------------------

FcDone == "response.function_call_arguments.done"
Ev(type, text) == [type |-> type, call |-> None, fn |-> "", args |-> "", text |-> text]
FcEv(c, f, a) == [type |-> FcDone, call |-> c, fn |-> f, args |-> a, text |-> ""]

UserFinal(text) == CMsg("transcription.complete", text, "user")

\* The task starts: `async for message in proxy.openai_ws` binds whatever
\* connection proxy.openai_ws holds when the task first runs.
UPumpStart(s) ==
    /\ ~loopBlocked
    /\ UNCHANGED <<acked, lastFrame, cap, orphaned, emitted, taken, upstream_session, memory_manager>>
    /\ upump[s] = "start"
    /\ openai_ws # None
    /\ iter' = [iter EXCEPT ![s] = openai_ws]
    /\ upump' = [upump EXCEPT ![s] = EnterRecv(s, openai_ws)]
    /\ UNCHANGED <<openai_ws, client_connections, ep, cstate, tstate, closers, cpump, call,
                   last_user_transcript, pending_user_transcript, loopBlocked, upSent, clog,
                   invoked, faulted, turn, seen, lastEv, nUp, nFrames>>

PendingNotCleared == TRUE

\* The flag value written after the pending user transcript was forwarded.
PendingAfterFinalize == FALSE

\* `if pending_user_transcript and last_user_transcript:` send the stored
\* transcript as transcription.complete and clear the flag.
FinalizePending(s) ==
    IF pending_user_transcript[s] /\ last_user_transcript[s] # ""
    THEN [msgs |-> <<UserFinal(last_user_transcript[s])>>, pending |-> PendingAfterFinalize]
    ELSE [msgs |-> <<>>, pending |-> pending_user_transcript[s]]

\* The characters of the strings the error branch works on.
Chars(m) ==
    CASE m = "critical" -> <<"c", "r", "i", "t", "i", "c", "a", "l">>
      [] m = "failed" -> <<"f", "a", "i", "l", "e", "d">>
      [] m = "Critical" -> <<"C", "r", "i", "t", "i", "c", "a", "l">>
      [] m = "Op failed" -> <<"O", "p", " ", "f", "a", "i", "l", "e", "d">>
      [] m = "FAILED" -> <<"F", "A", "I", "L", "E", "D">>
      [] m = "fail" -> <<"f", "a", "i", "l">>
      [] m = "critic" -> <<"c", "r", "i", "t", "i", "c">>
      [] m = "rate" -> <<"r", "a", "t", "e">>
      [] m = "Unknown error" -> <<"U", "n", "k", "n", "o", "w", "n", " ", "e", "r", "r", "o", "r">>
      [] OTHER -> <<>>

UpperLetters ==
    <<"A", "B", "C", "D", "E", "F", "G", "H", "I", "J", "K", "L", "M",
      "N", "O", "P", "Q", "R", "S", "T", "U", "V", "W", "X", "Y", "Z">>
LowerLetters ==
    <<"a", "b", "c", "d", "e", "f", "g", "h", "i", "j", "k", "l", "m",
      "n", "o", "p", "q", "r", "s", "t", "u", "v", "w", "x", "y", "z">>

\* str.lower()
LowerChar(c) ==
    IF \E i \in 1..Len(UpperLetters) : UpperLetters[i] = c
    THEN LowerLetters[CHOOSE i \in 1..Len(UpperLetters) : UpperLetters[i] = c]
    ELSE c
Lower(w) == [i \in 1..Len(w) |-> LowerChar(w[i])]

\* `k in w` for strings
Contains(w, k) == \E i \in 0..(Len(w) - Len(k)) : SubSeq(w, i + 1, i + Len(k)) = k

SevereKeywordsOnlyCritical == {"critical"}

\* The keywords looked for in the lower-cased message of an error event.
SevereKeywords == {"critical", "failed"}

\* data.get("error", {}).get("message", "Unknown error"); an event whose
\* error carries no message has text "".
ErrorMsg(e) == IF e.text = "" THEN "Unknown error" ELSE e.text

\* if "critical" in error_msg.lower() or "failed" in error_msg.lower()
IsSevere(m) == \E k \in SevereKeywords : Contains(Lower(Chars(m)), Chars(k))

\* The branch of handle_openai_messages for event e (every event kind but
\* the function call): the messages it sends to the client, in order, and
\* the values it leaves in the two locals.
Handle(s, e) ==
    LET keep == [msgs |-> <<>>, last |-> last_user_transcript[s],
                 pending |-> pending_user_transcript[s]] IN
    CASE e.type = "response.text.delta" ->
           [keep EXCEPT !.msgs = <<CMsg("text.response", e.text, "")>>]
      [] e.type = "response.audio.delta" ->
           [keep EXCEPT !.msgs = <<CMsg("audio.response", e.text, "")>>]
      [] e.type = "response.audio_transcript.delta" ->
           [keep EXCEPT !.msgs = FinalizePending(s).msgs
                                   \o <<CMsg("transcription", e.text, "assistant")>>,
                        !.pending = FinalizePending(s).pending]
      [] e.type = "response.created" ->
           [keep EXCEPT !.msgs = FinalizePending(s).msgs,
                        !.pending = FinalizePending(s).pending]
      [] e.type = "response.done" ->
           [keep EXCEPT !.msgs = <<CMsg("response.done", "", "")>>]
      [] e.type = "conversation.item.input_audio_transcription.completed" ->
           [keep EXCEPT !.msgs = IF e.text # "" THEN <<UserFinal(e.text)>> ELSE <<>>]
      [] e.type = "conversation.item.input_audio_transcription.partial" ->
           IF e.text # ""
           THEN [msgs |-> <<CMsg("transcription.partial", e.text, "user")>>,
                 last |-> e.text, pending |-> TRUE]
           ELSE keep
      [] e.type = "input_audio_buffer.speech_started" ->
           [keep EXCEPT !.msgs = <<CMsg("speech_started", "", "")>>]
      [] e.type = "input_audio_buffer.speech_stopped" ->
           [keep EXCEPT !.msgs = <<CMsg("speech_stopped", "", "")>>,
                        !.pending = IF last_user_transcript[s] # "" THEN TRUE ELSE @]
      [] e.type = "error" ->
           [keep EXCEPT !.msgs = IF IsSevere(ErrorMsg(e))
                                 THEN <<CMsg("error", ErrorMsg(e), "")>> ELSE <<>>]
      [] OTHER -> keep

\* Number of finalized user transcripts among msgs.
RECURSIVE UserFinals(_)
UserFinals(msgs) ==
    IF msgs = <<>> THEN 0
    ELSE (IF Head(msgs).type = "transcription.complete" /\ Head(msgs).role = "user" THEN 1 ELSE 0)
         + UserFinals(Tail(msgs))

\* History of the current turn of s after event e, whose handler delivered
\* msgs to the client.  A turn starts with speech_started; its finalized
\* user transcripts are those delivered after its speech_stopped, and its
\* assistant deltas those that follow its response.created.
TurnAfter(s, e, msgs) ==
    LET t == turn[s]
        n == t.finals + (IF t.stopped THEN UserFinals(msgs) ELSE 0) IN
    CASE e.type = "input_audio_buffer.speech_started" ->
           [NewTurn EXCEPT !.started = TRUE,
                           !.settled = (last_user_transcript[s] # ""
                                          /\ ~pending_user_transcript[s])]
      [] e.type = "conversation.item.input_audio_transcription.partial" ->
           [t EXCEPT !.partial = (@ \/ e.text # ""), !.finals = n]
      [] e.type = "input_audio_buffer.speech_stopped" ->
           [t EXCEPT !.stopped = TRUE, !.stoppedFirst = (@ \/ ~t.created), !.finals = n]
      [] e.type = "response.created" ->
           [t EXCEPT !.created = TRUE, !.finals = n]
      [] e.type = "response.audio_transcript.delta" ->
           IF t.created
           THEN [t EXCEPT !.delta = TRUE, !.finals = n,
                          !.finalsAtDelta = IF t.delta THEN @ ELSE n]
           ELSE [t EXCEPT !.finals = n]
      [] OTHER -> [t EXCEPT !.finals = n]

\* One upstream event other than a function call is read and handled.  A
\* raise of websocket.send_json ends the pump (the try encloses the loop).
ReadEvent(s, e, r, max) ==
    /\ ~loopBlocked
    /\ acked' = [acked EXCEPT ![s] = (@ \/ e.type = "session.updated")]
    /\ UNCHANGED <<lastFrame, cap, orphaned, upstream_session, memory_manager>>
    /\ upump[s] = "recv"
    /\ UpOpen(iter[s])
    /\ e.type # FcDone
    /\ nUp + nFrames < max
    /\ nUp' = nUp + 1
    /\ seen' = [seen EXCEPT ![s] = @ + 1]
    /\ lastEv' = [lastEv EXCEPT ![s] = e.type]
    /\ r \in ClientSendOutcomes(s)
    /\ LET h == Handle(s, e) IN
       IF r = "raise"
       THEN /\ h.msgs # <<>>
            /\ upump' = [upump EXCEPT ![s] = "done"]
            /\ UNCHANGED <<clog, last_user_transcript, pending_user_transcript, turn>>
       ELSE /\ clog' = [clog EXCEPT ![s] = Delivered(s, h.msgs)]
            /\ last_user_transcript' = [last_user_transcript EXCEPT ![s] = h.last]
            /\ pending_user_transcript' = [pending_user_transcript EXCEPT ![s] = h.pending]
            /\ turn' = [turn EXCEPT ![s] = IF cstate[s] = "open" THEN TurnAfter(s, e, h.msgs) ELSE @]
            /\ upump' = [upump EXCEPT ![s] = EnterRecv(s, iter[s])]
    /\ UNCHANGED <<openai_ws, client_connections, ep, cstate, tstate, closers, cpump, iter, call,
                   loopBlocked, upSent, invoked, faulted, nFrames>>

\* The event read is any event upstream may send.
UpRecv(s, e, r, max) == ReadEvent(s, e, r, max) /\ UNCHANGED <<emitted, taken>>

\* Upstream puts a text or audio delta on transport t; the websockets
\* connection queues it until the pump iterating t reads it.
UpstreamEmit(t, d, maxd) ==
    /\ tstate[t] = "open"
    /\ Len(emitted[t]) < maxd
    /\ emitted' = [emitted EXCEPT ![t] = Append(@, d)]
    /\ UNCHANGED <<openai_ws, client_connections, ep, cstate, tstate, closers, cpump, upump,
                   iter, call, last_user_transcript, pending_user_transcript, loopBlocked,
                   upSent, clog, invoked, faulted, turn, seen, lastEv, nUp, nFrames,
                   acked, lastFrame, cap, orphaned, taken, upstream_session, memory_manager>>

\* The pump of s reads the oldest delta queued on the transport it iterates.
UpRecvDelta(s, r, max) ==
    /\ iter[s] # None
    /\ taken[iter[s]] < Len(emitted[iter[s]])
    /\ ReadEvent(s, emitted[iter[s]][taken[iter[s]] + 1], r, max)
    /\ taken' = [taken EXCEPT ![iter[s]] = @ + 1]
    /\ UNCHANGED emitted

\* An upstream message that is not JSON: json.loads(message) raises inside
\* the try that encloses the `async for`, and the pump returns.
UpMalformed(s, max) ==
    /\ ~loopBlocked
    /\ UNCHANGED <<acked, lastFrame, cap, orphaned, emitted, taken, upstream_session, memory_manager>>
    /\ upump[s] = "recv"
    /\ UpOpen(iter[s])
    /\ nUp + nFrames < max
    /\ nUp' = nUp + 1
    /\ seen' = [seen EXCEPT ![s] = @ + 1]
    /\ lastEv' = [lastEv EXCEPT ![s] = "malformed"]
    /\ upump' = [upump EXCEPT ![s] = "done"]
    /\ UNCHANGED <<openai_ws, client_connections, ep, cstate, tstate, closers, cpump, iter, call,
                   last_user_transcript, pending_user_transcript, loopBlocked, upSent, clog,
                   invoked, faulted, turn, nFrames>>

\* ---- function-call dispatch: handle_function_call ----------------------------

\* Outcomes of a capability that was invoked with a JSON object: it returns
\* a result ("ok"), returns an error dict ("error"), raises into
\* handle_function_call ("raise") or never returns ("hang").
\*  - search_rag calls rag_store.similarity_search synchronously, under no
\*    timeout, and catches every exception itself;
\*  - execute_workflow sleeps and returns;
\*  - call_api awaits the HTTP call (the HTTP client's own total timeout and
\*    every exception inside its try come back as an error dict); the
\*    endpoint lookup before the try can raise.
Outcomes(f) ==
    CASE f = "search_knowledge_base" -> {"ok", "error", "hang"}
      [] f = "execute_workflow" -> {"ok"}
      [] f = "call_external_api" -> {"ok", "error", "raise"}
      [] OTHER -> {"ok"}

\* handle_function_call assigns result_output in the branch of
\* call_external_api and in the else of the chain (no capability of that
\* name) only: after search_rag or execute_workflow has returned,
\* json.dumps(result_output) raises UnboundLocalError, which the except
\* clause catches before anything is sent.
OutputBound(f) == f \notin {"search_knowledge_base", "execute_workflow"}

SendOrderSwapped == <<"response.create", "function_call_output">>

\* The two sends of handle_function_call after the capability returned,
\* in program order.
SendOrder == <<"function_call_output", "response.create">>
FirstSend == SendOrder[1]
SecondSend == SendOrder[2]

\* `if self.openai_ws: await self.openai_ws.send(function_response)` for
\* the call of s, result kind res: the values of upSent, upump and call.
\* A raise of send is caught by handle_function_call, which returns.
SendOutput(s, c, res) ==
    IF openai_ws = None
    THEN [sent |-> upSent, pc |-> EnterRecv(s, iter[s]), call |-> NoCall]
    ELSE IF UpOpen(openai_ws)
    THEN [sent |-> [upSent EXCEPT ![s] = Append(@, UpMsg(openai_ws, FirstSend, c.id, s, res))],
          pc |-> "fc_trigger", call |-> c]
    ELSE [sent |-> upSent, pc |-> EnterRecv(s, iter[s]), call |-> NoCall]

\* A function_call_arguments.done event is read: json.loads(arguments),
\* send_json(function_call) to the client, then handle_function_call up to
\* its first suspension.
ReadFc(s, e, r, o, max) ==
    /\ ~loopBlocked
    /\ UNCHANGED <<acked, lastFrame, orphaned, emitted, taken, upstream_session, memory_manager>>
    /\ upump[s] = "recv"
    /\ UpOpen(iter[s])
    /\ e.type = FcDone
    /\ nUp + nFrames < max
    /\ nUp' = nUp + 1
    /\ seen' = [seen EXCEPT ![s] = @ + 1]
    /\ lastEv' = [lastEv EXCEPT ![s] = e.type]
    /\ r \in ClientSendOutcomes(s)
    /\ o \in Outcomes(e.fn)
    /\ LET c == [id |-> e.call, fn |-> e.fn, args |-> e.args] IN
       IF e.args = "malformed"
       THEN \* json.loads raises inside the pump's try: the pump ends
            /\ r = "ok"
            /\ upump' = [upump EXCEPT ![s] = "done"]
            /\ faulted' = [faulted EXCEPT ![s] = TRUE]
            /\ UNCHANGED <<clog, call, invoked, upSent, loopBlocked>>
       ELSE IF r = "raise"
       THEN /\ upump' = [upump EXCEPT ![s] = "done"]
            /\ UNCHANGED <<clog, call, invoked, upSent, loopBlocked, faulted>>
       ELSE /\ clog' = [clog EXCEPT ![s] = Delivered(s, <<CMsg("function_call", "", "")>>)]
            /\ IF e.args = "nonobject" /\ e.fn \in KnownFunctions
               THEN \* arguments.get raises; caught by handle_function_call
                    /\ faulted' = [faulted EXCEPT ![s] = TRUE]
                    /\ upump' = [upump EXCEPT ![s] = EnterRecv(s, iter[s])]
                    /\ UNCHANGED <<call, invoked, upSent, loopBlocked>>
               ELSE IF e.fn = "search_knowledge_base"
               THEN /\ invoked' = [invoked EXCEPT ![s][e.call] = @ + 1]
                    /\ IF o = "hang"
                       THEN /\ loopBlocked' = TRUE
                            /\ upump' = [upump EXCEPT ![s] = "fc_wait"]
                            /\ call' = [call EXCEPT ![s] = c]
                            /\ UNCHANGED <<upSent, faulted>>
                       ELSE IF OutputBound(e.fn)
                       THEN /\ upSent' = SendOutput(s, c, o).sent
                            /\ upump' = [upump EXCEPT ![s] = SendOutput(s, c, o).pc]
                            /\ call' = [call EXCEPT ![s] = SendOutput(s, c, o).call]
                            /\ UNCHANGED <<loopBlocked, faulted>>
                       ELSE /\ faulted' = [faulted EXCEPT ![s] = TRUE]
                            /\ upump' = [upump EXCEPT ![s] = EnterRecv(s, iter[s])]
                            /\ UNCHANGED <<call, upSent, loopBlocked>>
               ELSE IF e.fn \in KnownFunctions
               THEN /\ invoked' = [invoked EXCEPT ![s][e.call] = @ + 1]
                    /\ upump' = [upump EXCEPT ![s] = "fc_wait"]
                    /\ call' = [call EXCEPT ![s] = c]
                    /\ UNCHANGED <<faulted, upSent, loopBlocked>>
               ELSE \* no capability of that name: result = {} is sent back
                    /\ upSent' = SendOutput(s, c, "ok").sent
                    /\ upump' = [upump EXCEPT ![s] = SendOutput(s, c, "ok").pc]
                    /\ call' = [call EXCEPT ![s] = SendOutput(s, c, "ok").call]
                    /\ UNCHANGED <<faulted, invoked, loopBlocked>>
    /\ UNCHANGED <<openai_ws, client_connections, ep, cstate, tstate, closers, cpump, iter,
                   last_user_transcript, pending_user_transcript, turn, nFrames>>

\* The capability is any of the three, with any of its outcomes.
UpRecvFc(s, e, r, o, max) == ReadFc(s, e, r, o, max) /\ UNCHANGED cap

\* The awaited capability (execute_workflow, call_api) completes with
\* outcome o.
Return(s, o) ==
    /\ ~loopBlocked
    /\ UNCHANGED <<acked, lastFrame, orphaned, emitted, taken, upstream_session, memory_manager>>
    /\ upump[s] = "fc_wait"
    /\ o \in Outcomes(call[s].fn)
    /\ IF o = "raise" \/ ~OutputBound(call[s].fn)
       THEN /\ faulted' = [faulted EXCEPT ![s] = TRUE]
            /\ upump' = [upump EXCEPT ![s] = EnterRecv(s, iter[s])]
            /\ call' = [call EXCEPT ![s] = NoCall]
            /\ UNCHANGED upSent
       ELSE /\ upSent' = SendOutput(s, call[s], o).sent
            /\ upump' = [upump EXCEPT ![s] = SendOutput(s, call[s], o).pc]
            /\ call' = [call EXCEPT ![s] = SendOutput(s, call[s], o).call]
            /\ UNCHANGED faulted
    /\ UNCHANGED <<openai_ws, client_connections, ep, cstate, tstate, closers, cpump, iter,
                   last_user_transcript, pending_user_transcript, loopBlocked, clog, invoked,
                   turn, seen, lastEv, nUp, nFrames>>

\* The outcome is any outcome of the capability.
FcReturn(s, o) == Return(s, o) /\ UNCHANGED cap

\* The second send (response.create), then send_to_client(function.result).
\* send_to_client hands client_ws.send a str where an ASGI message dict is
\* expected, so it raises TypeError and delivers nothing; a raise of either
\* call is caught by handle_function_call, which returns.
FcTrigger(s) ==
    /\ ~loopBlocked
    /\ UNCHANGED <<acked, lastFrame, cap, orphaned, emitted, taken, upstream_session, memory_manager>>
    /\ upump[s] = "fc_trigger"
    /\ upSent' = IF UpOpen(openai_ws)
                 THEN [upSent EXCEPT ![s] = Append(@, UpMsg(openai_ws, SecondSend, call[s].id, s, ""))]
                 ELSE upSent
    /\ upump' = [upump EXCEPT ![s] = EnterRecv(s, iter[s])]
    /\ call' = [call EXCEPT ![s] = NoCall]
    /\ UNCHANGED <<openai_ws, client_connections, ep, cstate, tstate, closers, cpump, iter,
                   last_user_transcript, pending_user_transcript, loopBlocked, clog, invoked,
                   faulted, turn, seen, lastEv, nUp, nFrames>>

\* ---- the capabilities: search_rag, execute_workflow, call_api ---------------

\* Strings the capabilities build are sequences of words; an f-string and
\* ' '.join concatenate them.

\* A dict with an "error" key is what the capabilities return on failure.
IsFailure(r) == "error" \in DOMAIN r

\* The outcome kind of a returned dict.
OutcomeOf(r) == IF IsFailure(r) THEN "error" ELSE "ok"

\* What a capability did: the dict it returned and the number of requests
\* it made to its provider.
Effect(r, n) == [result |-> r, requests |-> n]

\* -- execute_workflow --

\* The value arguments.get(key) yields for an absent key.
Missing == "<missing>"

workflowsSwapped ==
    [customer_onboarding |-> <<"verify_identity", "create_account", "send_welcome_email",
                               "schedule_followup">>,
     support_ticket |-> <<"categorize_issue", "check_knowledge_base", "create_ticket",
                          "assign_agent", "send_confirmation">>,
     order_processing |-> <<"validate_order", "check_inventory", "process_payment",
                            "generate_invoice", "arrange_shipping">>,
     data_analysis |-> <<"clean_data", "fetch_data", "run_analysis", "generate_report">>]

\* The step lists execute_workflow knows, by workflow type.
workflows ==
    [customer_onboarding |-> <<"verify_identity", "create_account", "send_welcome_email",
                               "schedule_followup">>,
     support_ticket |-> <<"categorize_issue", "check_knowledge_base", "create_ticket",
                          "assign_agent", "send_confirmation">>,
     order_processing |-> <<"validate_order", "check_inventory", "process_payment",
                            "generate_invoice", "arrange_shipping">>,
     data_analysis |-> <<"fetch_data", "clean_data", "run_analysis", "generate_report">>]

DefaultStepsFirstKnown == workflows["customer_onboarding"]

\* The default of workflows.get(workflow_type, []).
DefaultSteps == <<>>

\* execute_workflow(workflow_type, parameters): every step of the list found
\* is appended to completed_steps, in order.
execute_workflow(workflow_type) ==
    LET steps == Get(workflows, workflow_type, DefaultSteps) IN
    Effect([type |-> workflow_type, status |-> "completed",
            steps_executed |-> [i \in 1..Len(steps) |-> steps[i]]], 0)

WorkflowTypes ==
    DOMAIN workflows \cup {"nonexistent_workflow", "Customer_Onboarding", "", Missing}

\* -- search_rag --

\* str(n) for the counts of a summary.
NumText(n) ==
    CASE n = 0 -> "0" [] n = 1 -> "1" [] n = 2 -> "2" [] n = 3 -> "3" [] n = 4 -> "4"
      [] OTHER -> "many"

Doc(filename, content) == [filename |-> filename, page_content |-> content]

\* The filenames of docs, each once, in order of first occurrence.
RECURSIVE Sources(_)
Sources(docs) ==
    IF docs = <<>> THEN <<>>
    ELSE LET front == Sources(SubSeq(docs, 1, Len(docs) - 1))
             f == docs[Len(docs)].filename IN
         IF \E i \in 1..Len(front) : front[i] = f THEN front ELSE Append(front, f)

ExcerptRanksFirst == {1}

\* results[:2]: the ranks of the results whose content the summary quotes.
ExcerptRanks == {1, 2}

\* ' '.join of the contents of those among the first n results.
RECURSIVE JoinContents(_, _)
JoinContents(results, n) ==
    IF n = 0 THEN <<>>
    ELSE JoinContents(results, n - 1)
           \o (IF n \in ExcerptRanks THEN results[n].content ELSE <<>>)

NoDocsMessageEmpty == <<>>

\* The message of the result when both searches find nothing.
NoDocsMessage == <<"No", "relevant", "documents", "found", ".", "Please", "make", "sure", "documents", "are", "uploaded", "to", "the", "knowledge", "base", ".">>

\* What rag_store.similarity_search gives: it raises, or returns documents.
Raised == [raises |-> TRUE, docs |-> <<>>]
Found(docs) == [raises |-> FALSE, docs |-> docs]

\* str.isspace() for the characters of a query.
IsSpace(c) == c \in {" ", "\t", "\n"}

\* str.split(): the maximal runs of characters that are not whitespace.
RECURSIVE Split(_)
Split(w) ==
    IF w = <<>> THEN <<>>
    ELSE LET front == SubSeq(w, 1, Len(w) - 1)
             c == w[Len(w)]
             ws == Split(front) IN
         IF IsSpace(c) THEN ws
         ELSE IF front # <<>> /\ ~IsSpace(front[Len(front)])
              THEN [ws EXCEPT ![Len(ws)] = Append(@, c)]
              ELSE Append(ws, <<c>>)

\* " ".join(words)
RECURSIVE Join(_)
Join(words) ==
    IF words = <<>> THEN <<>>
    ELSE IF Len(words) = 1 THEN words[1]
    ELSE Join(SubSeq(words, 1, Len(words) - 1)) \o <<" ">> \o words[Len(words)]

KeywordRanksTwo == {1, 2}

\* [:3]: the positions of the words kept for the keyword search.
KeywordRanks == {1, 2, 3}

\* words[:3], among the first n words.
RECURSIVE Keywords(_, _)
Keywords(words, n) ==
    IF n = 0 THEN <<>>
    ELSE Keywords(words, n - 1) \o (IF n \in KeywordRanks THEN <<words[n]>> ELSE <<>>)

\* keyword_query = " ".join(query.lower().split()[:3])
keyword_query(query) ==
    LET words == Split(Lower(query)) IN Join(Keywords(words, Len(words)))

\* What search_rag did: the dict it returned and the queries it handed to
\* rag_store.similarity_search, in order.
Searched(r, qs) == [result |-> r, requests |-> Len(qs), searches |-> qs]

\* search_rag(query, top_k): in.store says whether rag_store is set,
\* in.first is what the similarity search gives for the query and in.retry
\* what it gives for the keyword query.
search_rag(in) ==
    LET again == in.first.docs = <<>>    \* `if not docs:` after the first search
        kq == keyword_query(in.query) IN
    IF ~in.store
    THEN Searched([error |-> <<"Knowledge", "base", "not", "initialized">>, results |-> <<>>], <<>>)
    ELSE IF in.first.raises
    THEN Searched([error |-> <<"search", "failed">>, results |-> <<>>], <<in.query>>)
    ELSE IF again /\ in.retry.raises
    THEN Searched([error |-> <<"search", "failed">>, results |-> <<>>], <<in.query, kq>>)
    ELSE LET docs == IF again THEN in.retry.docs ELSE in.first.docs
             qs == IF again THEN <<in.query, kq>> ELSE <<in.query>> IN
         IF docs = <<>>
         THEN Searched([query |-> in.query, results |-> <<>>, count |-> 0,
                        message |-> NoDocsMessage], qs)
         ELSE LET results == [i \in 1..Len(docs) |->
                                 [content |-> docs[i].page_content, relevance_rank |-> i,
                                  source |-> docs[i].filename]]
                  sources == Sources(docs) IN
              Searched([query |-> in.query, results |-> results, count |-> Len(results),
                        sources |-> sources,
                        summary |-> <<"Found", NumText(Len(results)), "relevant", "chunks", "from",
                                      NumText(Len(sources)), "document(s)", ":">>
                                     \o sources
                                     \o <<".", "Content", ":">>
                                     \o JoinContents(results, Len(results))], qs)

Guarantee == <<"30-day", "money-back", "guarantee">>
DocLists ==
    {<<>>,
     <<Doc("policy.txt", Guarantee)>>,
     <<Doc("faq.txt", <<"refund">>), Doc("policy.txt", Guarantee)>>,
     <<Doc("policy.txt", <<"returns">>), Doc("policy.txt", <<>>), Doc("faq.txt", Guarantee)>>}

SearchOutcomes == {Raised} \cup {Found(d) : d \in DocLists}

\* Queries the model may pass: "refund policy", "Is it OK now",
\* " A  b<TAB>c d" and the empty query.
Queries ==
    {<<"r", "e", "f", "u", "n", "d", " ", "p", "o", "l", "i", "c", "y">>,
     <<"I", "s", " ", "i", "t", " ", "O", "K", " ", "n", "o", "w">>,
     <<" ", "A", " ", " ", "b", "\t", "c", " ", "d">>,
     <<>>}

\* The store answers the same query the same way within one call, unless
\* a search raises.
SearchInputs ==
    {in \in [query : Queries, store : BOOLEAN, first : SearchOutcomes, retry : SearchOutcomes] :
        (keyword_query(in.query) = in.query /\ ~in.first.raises /\ ~in.retry.raises)
            => in.retry = in.first}

\* -- call_api, call_api_legacy, search_flights --

Statuses == {200, 404, 500}

\* str(response.status)
StatusText(st) ==
    CASE st = 200 -> "200" [] st = 404 -> "404" [] st = 500 -> "500" [] OTHER -> "?"

ImageUrl == "http://x/img.png"

\* Response bodies: the text of the body, and what json.loads makes of it.
ResponseTexts ==
    {"<html>", "{\"message\": \"http://x/img.png\"}", "{\"message\": \"\"}", "{\"fact\": \"x\"}"}
IsJson(text) == text # "<html>"
JsonLoads(text) ==
    CASE text = "{\"message\": \"http://x/img.png\"}" -> [message |-> ImageUrl]
      [] text = "{\"message\": \"\"}" -> [message |-> ""]
      [] OTHER -> [fact |-> "x"]

\* str(e) of the exception json.loads / response.json() raises.
JsonError == <<"Expecting", "value">>

\* method.upper()
Upper(method) == IF method = "post" THEN "POST" ELSE method
Methods == {"GET", "POST", "post", "DELETE"}

Flights == "amadeus_flight_search"
Endpoints == {"dog", "petstore", Flights}

ApiError(endpoint, msg) == [endpoint |-> endpoint, error |-> msg, status |-> "error"]
ApiSuccess(endpoint, response) ==
    [endpoint |-> endpoint, response |-> response, status |-> "success"]

\* call_api_legacy(endpoint, method, params): the branch of "dog" sends a GET
\* to its hardcoded URL, whatever the method; a status other than 200 runs
\* on to the fallback for unknown endpoints.  in.lresp is the response to
\* that GET.
call_api_legacy(in) ==
    LET unknown == ApiError(in.endpoint, <<"Unknown", "endpoint", ":", in.endpoint>>) IN
    IF in.endpoint = "dog"
    THEN IF in.lresp.status = 200
         THEN IF IsJson(in.lresp.text)
              THEN Effect(ApiSuccess(in.endpoint,
                                     [image_url |-> Get(JsonLoads(in.lresp.text), "message", ""),
                                      fact |-> "Dogs have been human companions"]), 1)
              ELSE Effect(ApiError(in.endpoint, JsonError), 1)
         ELSE Effect(unknown, 1)
    ELSE Effect(unknown, 0)

FlightSearchFailedMsg == <<"Flight", "search", "failed">>

\* The error of search_flights when no Amadeus client is set.
NotConfiguredMsg == <<"Flight", "search", "not", "configured", ".", "Please", "set", "up", "Amadeus", "API", "credentials", ".">>

\* search_flights(params) with the handler and client that call_api left:
\* the enhanced handler when there is one, else the original implementation,
\* which asks for the client first.  in.provider is what the provider gives.
search_flights(in, handler, client) ==
    IF handler
    THEN IF in.provider = "offers"
         THEN Effect(ApiSuccess(Flights, [status |-> "success"]), 1)
         ELSE Effect([endpoint |-> Flights, error |-> <<"No", "flights">>,
                      error_code |-> "UNKNOWN", status |-> "error"], 1)
    ELSE IF ~client
    THEN Effect(ApiError("flight_search", NotConfiguredMsg), 0)
    ELSE IF in.provider = "offers"
         THEN Effect(ApiSuccess("flight_search", [flights |-> "offers"]), 1)
         ELSE Effect(ApiError("flight_search", <<"Failed", "to", "search", "flights">>), 1)

\* call_api(endpoint, method, params).  in.configured: an active entry of
\* api_config has this id; in.resp: the response to the configured request;
\* for the flight search, in.creds: the entry holds a client id and secret,
\* in.client / in.handler: proxy.amadeus_client / proxy.flight_handler are
\* set already, in.clientOk: the Amadeus client can be constructed.
call_api(in) ==
    IF ~in.configured THEN call_api_legacy(in)
    ELSE IF in.endpoint = Flights
    THEN LET init == ~in.client /\ in.creds /\ in.clientOk IN
         search_flights(in, in.handler \/ init, in.client \/ init)
    ELSE IF Upper(in.method) = "GET"
    THEN IF in.resp.status = 200
         THEN IF ~IsJson(in.resp.text)
              THEN Effect(ApiError(in.endpoint, <<"Invalid", "JSON", "response", ":">> \o JsonError), 1)
              ELSE LET data == JsonLoads(in.resp.text) IN
                   IF in.endpoint = "dog" /\ "message" \in DOMAIN data
                   THEN Effect([endpoint |-> in.endpoint,
                                response |-> [image_url |-> data["message"],
                                              description |-> "Here's a random dog picture!"],
                                status |-> "success", response_type |-> "image"], 1)
                   ELSE Effect(ApiSuccess(in.endpoint, data), 1)
         ELSE Effect(ApiError(in.endpoint,
                              <<"API", "returned", "status", StatusText(in.resp.status)>>), 1)
    ELSE IF Upper(in.method) = "POST"
    THEN IF in.resp.status = 200
         THEN IF IsJson(in.resp.text)
              THEN Effect(ApiSuccess(in.endpoint, JsonLoads(in.resp.text)), 1)
              ELSE Effect(ApiError(in.endpoint, JsonError), 1)
         ELSE \* no branch for another status: the try is left without a return
              Effect(call_api_legacy(in).result, 1 + call_api_legacy(in).requests)
    ELSE call_api_legacy(in)

Responses == {[status |-> st, text |-> t] : st \in Statuses, t \in ResponseTexts}
NoResponse == [status |-> 200, text |-> "<html>"]
LegacyResponses ==
    {[status |-> 200, text |-> "{\"message\": \"http://x/img.png\"}"],
     [status |-> 200, text |-> "<html>"],
     [status |-> 500, text |-> "<html>"]}

\* The calls of call_external_api considered: requests to two endpoints with
\* every response, and flight searches with every state of the credentials.
\* A handler exists only where a client could be constructed.
ApiInputs ==
    {[endpoint |-> e, method |-> m, configured |-> c, resp |-> r, lresp |-> l,
      creds |-> FALSE, client |-> FALSE, handler |-> FALSE, clientOk |-> FALSE, provider |-> "offers"] :
        e \in {"dog", "petstore"}, m \in Methods, c \in BOOLEAN, r \in Responses,
        l \in LegacyResponses}
    \cup
    {[endpoint |-> Flights, method |-> "GET", configured |-> c, resp |-> NoResponse,
      lresp |-> NoResponse, creds |-> cr, client |-> cl, handler |-> h, clientOk |-> ok,
      provider |-> p] :
        c \in BOOLEAN, cr \in BOOLEAN, cl \in BOOLEAN, h \in BOOLEAN, ok \in BOOLEAN,
        p \in {"offers", "fail"}}

\* The image reshaping of handle_function_call: result_output for the dict
\* a capability returned.  A missing image_url and an empty one are both
\* falsy.
result_output(result) ==
    IF Get(result, "response_type", "") = "image"
       /\ Get(Get(result, "response", <<>>), "image_url", "") # ""
    THEN [type |-> "image", url |-> result["response"]["image_url"],
          description |-> Get(result["response"], "description", "Image retrieved successfully")]
    ELSE result

\* handle_function_call awaits call_api: the capability runs and returns.
InvokeCallApi(s, in) ==
    /\ ~loopBlocked
    /\ upump[s] = "fc_wait"
    /\ call[s].fn = "call_external_api"
    /\ cap.stage # "returned"
    /\ cap' = [stage |-> "returned", fn |-> call[s].fn, in |-> in, out |-> call_api(in)]
    /\ UNCHANGED <<openai_ws, client_connections, ep, cstate, tstate, closers, cpump, upump,
                   iter, call, last_user_transcript, pending_user_transcript, loopBlocked,
                   upSent, clog, invoked, faulted, turn, seen, lastEv, nUp, nFrames,
                   acked, lastFrame, orphaned, emitted, taken, upstream_session, memory_manager>>

\* handle_function_call awaits execute_workflow.
InvokeExecuteWorkflow(s, wt) ==
    /\ ~loopBlocked
    /\ upump[s] = "fc_wait"
    /\ call[s].fn = "execute_workflow"
    /\ cap.stage # "returned"
    /\ cap' = [stage |-> "returned", fn |-> call[s].fn, in |-> wt, out |-> execute_workflow(wt)]
    /\ UNCHANGED <<openai_ws, client_connections, ep, cstate, tstate, closers, cpump, upump,
                   iter, call, last_user_transcript, pending_user_transcript, loopBlocked,
                   upSent, clog, invoked, faulted, turn, seen, lastEv, nUp, nFrames,
                   acked, lastFrame, orphaned, emitted, taken, upstream_session, memory_manager>>

\* The capability has returned: handle_function_call goes on to its sends.
FcReturnCap(s) ==
    /\ cap.stage = "returned"
    /\ Return(s, OutcomeOf(cap.out.result))
    /\ cap' = NoCap

\* A function call of search_knowledge_base is read; search_rag runs inside
\* the step, and handle_function_call goes on to its first send.
InvokeSearchRag(s, c, in, max) ==
    /\ cap.stage # "returned"
    /\ cstate[s] = "open"
    /\ ReadFc(s, FcEv(c, "search_knowledge_base", "object"), "ok", OutcomeOf(search_rag(in).result), max)
    /\ cap' = [stage |-> "sent", fn |-> "search_knowledge_base", in |-> in, out |-> search_rag(in)]

\* ---- specifications ---------------------------------------------------------

DispatchEvents ==
    {FcEv(c, "search_knowledge_base", "object") : c \in CallIds}
      \cup {FcEv(c, "call_external_api", a) : c \in CallIds, a \in ArgShapes}
      \cup {Ev("response.text.delta", "d")}

PairEvents == {FcEv(1, "call_external_api", "object"), Ev("response.text.delta", "d")}

\* One client connection: the relay and the dispatch loop of one session.
Solo == {1}

Next ==
    \/ \E s \in Solo : Accept(s)
    \/ \E s \in Solo, cfg \in {"sent", "failed"} : ConnectOk(s, cfg)
    \/ \E s \in Solo, r \in {"ok", "raise"} : ConnectFail(s, r)
    \/ \E s \in Solo, r \in {"ok", "raise"} : SendConnected(s, r)
    \/ \E s \in Solo : TeardownClose(s)
    \/ \E s \in Solo : TeardownDel(s)
    \/ \E s \in Solo : ClientDisconnect(s)
    \/ \E t \in Solo : UpstreamClose(t)
    \/ \E s \in Solo : CPumpStart(s)
    \/ \E s \in Solo : ClientTextInput(s, MaxFrames, MaxUpEvents)
    \/ \E s \in Solo : ClientTextTrigger(s)
    \/ \E s \in Solo : UPumpStart(s)
    \/ \E s \in Solo, e \in DispatchEvents, r \in {"ok", "raise"} : UpRecv(s, e, r, MaxUpEvents)
    \/ \E s \in Solo, e \in DispatchEvents, r \in {"ok", "raise"}, o \in {"ok", "error", "raise", "hang"} :
          UpRecvFc(s, e, r, o, MaxUpEvents)
    \/ \E s \in Solo, o \in {"ok", "error", "raise"} : FcReturn(s, o)
    \/ \E s \in Solo : FcTrigger(s)

Spec == Init /\ [][Next]_vars

\* Several client connections sharing the process-wide proxy object.
PairNext ==
    \/ \E s \in Sessions : Accept(s)
    \/ \E s \in Sessions, cfg \in {"sent", "failed"} : ConnectOk(s, cfg)
    \/ \E s \in Sessions, r \in {"ok", "raise"} : ConnectFail(s, r)
    \/ \E s \in Sessions, r \in {"ok", "raise"} : SendConnected(s, r)
    \/ \E s \in Sessions : TeardownClose(s)
    \/ \E s \in Sessions : TeardownDel(s)
    \/ \E s \in Sessions : ClientDisconnect(s)
    \/ \E t \in Transports : UpstreamClose(t)
    \/ \E s \in Sessions : CPumpStart(s)
    \/ \E s \in Sessions : ClientTextInput(s, MaxFrames, MaxPairEvents)
    \/ \E s \in Sessions : ClientTextTrigger(s)
    \/ \E s \in Sessions : UPumpStart(s)
    \/ \E s \in Sessions, e \in PairEvents, r \in {"ok", "raise"} : UpRecv(s, e, r, MaxPairEvents)
    \/ \E s \in Sessions, e \in PairEvents, r \in {"ok", "raise"}, o \in {"ok", "error", "raise"} :
          UpRecvFc(s, e, r, o, MaxPairEvents)
    \/ \E s \in Sessions, o \in {"ok", "error", "raise"} : FcReturn(s, o)
    \/ \E s \in Sessions : FcTrigger(s)

PairSpec == Init /\ [][PairNext]_vars

\* The transcript reconciliation of one session: the upstream pump and the
\* events of a spoken turn.
TurnEvents ==
    {Ev("input_audio_buffer.speech_started", ""),
     Ev("input_audio_buffer.speech_stopped", ""),
     Ev("response.created", ""),
     Ev("response.audio_transcript.delta", "d"),
     Ev("conversation.item.input_audio_transcription.partial", "hi"),
     Ev("conversation.item.input_audio_transcription.completed", "hi")}

TurnNext ==
    \/ \E s \in Solo : Accept(s)
    \/ \E s \in Solo, cfg \in {"sent", "failed"} : ConnectOk(s, cfg)
    \/ \E s \in Solo, r \in {"ok", "raise"} : SendConnected(s, r)
    \/ \E s \in Solo : ClientDisconnect(s)
    \/ \E s \in Solo : UPumpStart(s)
    \/ \E s \in Solo, e \in TurnEvents, r \in {"ok", "raise"} : UpRecv(s, e, r, MaxTurnEvents)

TurnSpec == Init /\ [][TurnNext]_vars

\* The handshake of one session: connect, configuration, the events with
\* which upstream answers it, and teardown.
HandshakeEvents == {Ev("session.created", ""), Ev("session.updated", "")}

HandshakeNext ==
    \/ \E s \in Solo : Accept(s)
    \/ \E s \in Solo, cfg \in {"sent", "failed"} : ConnectOk(s, cfg)
    \/ \E s \in Solo, r \in {"ok", "raise"} : ConnectFail(s, r)
    \/ \E s \in Solo, r \in {"ok", "raise"} : SendConnected(s, r)
    \/ \E s \in Solo : TeardownClose(s)
    \/ \E s \in Solo : TeardownDel(s)
    \/ \E s \in Solo : ClientDisconnect(s)
    \/ \E t \in Solo : UpstreamClose(t)
    \/ \E s \in Solo : CPumpStart(s)
    \/ \E s \in Solo : UPumpStart(s)
    \/ \E s \in Solo, e \in HandshakeEvents, r \in {"ok", "raise"} : UpRecv(s, e, r, MaxHandshakeEvents)

HandshakeSpec == Init /\ [][HandshakeNext]_vars

\* The client-to-upstream pump of one session: the frames a client may
\* send, next to an upstream pump that reads well-formed and malformed
\* messages.
ClientEvents == {Ev("response.text.delta", "d")}

ClientNext ==
    \/ \E s \in Solo : Accept(s)
    \/ \E s \in Solo, cfg \in {"sent", "failed"} : ConnectOk(s, cfg)
    \/ \E s \in Solo, r \in {"ok", "raise"} : SendConnected(s, r)
    \/ \E s \in Solo : ClientDisconnect(s)
    \/ \E t \in Solo : UpstreamClose(t)
    \/ \E s \in Solo : CPumpStart(s)
    \/ \E s \in Solo : ClientTextInput(s, MaxClientFrames, MaxClientFrames)
    \/ \E s \in Solo : ClientTextTrigger(s)
    \/ \E s \in Solo, f \in OneStepFrames : ClientFrame(s, f, MaxClientFrames)
    \/ \E s \in Solo : ClientAudioInput(s, MaxClientFrames)
    \/ \E s \in Solo : ClientAudioCommit(s)
    \/ \E s \in Solo : UPumpStart(s)
    \/ \E s \in Solo, e \in ClientEvents, r \in {"ok", "raise"} : UpRecv(s, e, r, MaxClientFrames)
    \/ \E s \in Solo : UpMalformed(s, MaxClientFrames)

ClientSpec == Init /\ [][ClientNext]_vars

\* The error events of one session: the upstream pump reads error events
\* with various messages, next to ordinary events.
ErrorTexts == {"Critical", "Op failed", "FAILED", "fail", "critic", "rate", ""}
ErrorEvents == {Ev("error", m) : m \in ErrorTexts} \cup {Ev("response.text.delta", "d")}

ErrorNext ==
    \/ \E s \in Solo : Accept(s)
    \/ \E s \in Solo, cfg \in {"sent", "failed"} : ConnectOk(s, cfg)
    \/ \E s \in Solo, r \in {"ok", "raise"} : SendConnected(s, r)
    \/ \E s \in Solo : ClientDisconnect(s)
    \/ \E t \in Solo : UpstreamClose(t)
    \/ \E s \in Solo : UPumpStart(s)
    \/ \E s \in Solo, e \in ErrorEvents, r \in {"ok", "raise"} : UpRecv(s, e, r, MaxErrorEvents)

ErrorSpec == Init /\ [][ErrorNext]_vars

\* The capabilities of one session: the dispatch loop with the capability
\* evaluated on its inputs.
CapEvents == {FcEv(1, f, "object") : f \in {"execute_workflow", "call_external_api"}}

CapNext ==
    \/ \E s \in Solo : Accept(s)
    \/ \E s \in Solo : ConnectOk(s, "sent")
    \/ \E s \in Solo : SendConnected(s, "ok")
    \/ \E t \in Solo : UpstreamClose(t)
    \/ \E s \in Solo : UPumpStart(s)
    \/ \E s \in Solo, e \in CapEvents : UpRecvFc(s, e, "ok", "ok", MaxCapEvents)
    \/ \E s \in Solo, in \in SearchInputs : InvokeSearchRag(s, 1, in, MaxCapEvents)
    \/ \E s \in Solo, in \in ApiInputs : InvokeCallApi(s, in)
    \/ \E s \in Solo, wt \in WorkflowTypes : InvokeExecuteWorkflow(s, wt)
    \/ \E s \in Solo : FcReturnCap(s)
    \/ \E s \in Solo : FcTrigger(s)

CapSpec == Init /\ [][CapNext]_vars

\* Live settings updates: client connections sharing the proxy object, each
\* sending update_settings frames.
SettingsNext ==
    \/ \E s \in Sessions : Accept(s)
    \/ \E s \in Sessions, cfg \in {"sent", "failed"} : ConnectOk(s, cfg)
    \/ \E s \in Sessions : SendConnected(s, "ok")
    \/ \E s \in Sessions : ClientDisconnect(s)
    \/ \E t \in Transports : UpstreamClose(t)
    \/ \E s \in Sessions : CPumpStart(s)
    \/ \E s \in Sessions, f \in SettingsFrames : ClientFrame(s, f, MaxSettingsFrames)

SettingsSpec == Init /\ [][SettingsNext]_vars

\* The delta stream of one session: upstream emits text and audio deltas
\* while the pump reads them and dispatches function calls.
Deltas == {Ev(ty, d) : ty \in {"response.text.delta", "response.audio.delta"}, d \in {"a", "b"}}
DeltaCalls == {FcEv(1, "call_external_api", a) : a \in {"object", "malformed"}}

DeltaNext ==
    \/ \E s \in Solo : Accept(s)
    \/ \E s \in Solo : ConnectOk(s, "sent")
    \/ \E s \in Solo : SendConnected(s, "ok")
    \/ \E s \in Solo : ClientDisconnect(s)
    \/ \E t \in Solo : UpstreamClose(t)
    \/ \E s \in Solo : UPumpStart(s)
    \/ \E t \in Solo, d \in Deltas : UpstreamEmit(t, d, MaxDeltas)
    \/ \E s \in Solo, r \in {"ok", "raise"} : UpRecvDelta(s, r, MaxDeltaEvents)
    \/ \E s \in Solo, e \in DeltaCalls, r \in {"ok", "raise"} : UpRecvFc(s, e, r, "ok", MaxDeltaEvents)
    \/ \E s \in Solo, o \in {"ok", "error", "raise"} : FcReturn(s, o)
    \/ \E s \in Solo : FcTrigger(s)

DeltaSpec == Init /\ [][DeltaNext]_vars

\* ---- realtime_demo_server.py: RealtimeAPIOrchestrator.execute_function ------

\* The tools configure_session declares to the upstream session.
DeclaredTools ==
    {"get_weather", "get_joke", "get_random_fact", "get_cat_fact", "get_inspirational_quote",
     "get_activity_suggestion", "search_knowledge_base"}

\* The declared tools that ask an HTTP provider.
HttpTools == DeclaredTools \ {"search_knowledge_base"}

\* The fall-through return of execute_function.
UnknownFunction(function_name) == [error |-> <<"Unknown", "function", ":", function_name>>]

\* The dict a tool returns for a 200 response whose JSON body is data.
ToolResult(function_name, city, data) ==
    CASE function_name = "get_weather" ->
           LET current == Get(data, "current_condition", EmptySettings) IN
           [temperature |-> <<Get(current, "temp_C", "unknown"), "C">>,
            description |-> Get(current, "weatherDesc", "unknown"),
            humidity |-> <<Get(current, "humidity", "unknown"), "%">>,
            wind |-> <<Get(current, "windspeedKmph", "unknown"), "km/h">>]
      [] function_name = "get_joke" -> [joke |-> Get(data, "joke", "atoms joke")]
      [] function_name = "get_random_fact" -> [fact |-> Get(data, "text", "The Earth is round!")]
      [] function_name = "get_cat_fact" -> [fact |-> Get(data, "fact", "Cats have 9 lives!")]
      [] function_name = "get_inspirational_quote" ->
           [quote |-> Get(data, "content", "Believe in yourself!"),
            author |-> Get(data, "author", "Unknown")]
      [] function_name = "get_activity_suggestion" ->
           [activity |-> Get(data, "activity", "Take a walk"),
            type |-> Get(data, "type", "relaxation"),
            participants |-> Get(data, "participants", "1")]

\* execute_function(function_name, arguments): in.response is what the
\* provider answers (or that the request raised), in.matches the values of
\* the knowledge base that contain the query.
execute_function(in) ==
    IF in.function_name \in HttpTools
    THEN IF in.response.raises THEN [error |-> <<"request", "failed">>]
         ELSE IF in.response.status_code = 200
         THEN IF in.response.json
              THEN ToolResult(in.function_name, in.city, in.response.data)
              ELSE [error |-> JsonError]
         ELSE UnknownFunction(in.function_name)
    ELSE IF in.function_name = "search_knowledge_base"
    THEN [results |-> IF in.matches # <<>> THEN in.matches
                      ELSE <<"No information found in knowledge base">>]
    ELSE UnknownFunction(in.function_name)

\* A body a provider of the tool may send with a JSON object in it.
ProviderData(function_name) ==
    CASE function_name = "get_weather" ->
           [current_condition |-> [temp_C |-> "21", weatherDesc |-> "Sunny", humidity |-> "40",
                                   windspeedKmph |-> "9"]]
      [] function_name = "get_joke" -> [joke |-> "a joke"]
      [] function_name = "get_random_fact" -> [text |-> "a fact"]
      [] function_name = "get_cat_fact" -> [fact |-> "a cat fact"]
      [] function_name = "get_inspirational_quote" -> [content |-> "a quote", author |-> "someone"]
      [] function_name = "get_activity_suggestion" ->
           [activity |-> "Read", type |-> "education", participants |-> "1"]

\* What the HTTP request of a tool gives: it raises (timeout, no route), or
\* a response with a status and a body that is not JSON, an empty object or
\* the provider's object.
DemoResponses(function_name) ==
    {[raises |-> TRUE, status_code |-> 200, json |-> FALSE, data |-> EmptySettings]}
      \cup {[raises |-> FALSE, status_code |-> st, json |-> j, data |-> d] :
              st \in Statuses, j \in BOOLEAN, d \in {EmptySettings, ProviderData(function_name)}}

\* The function calls upstream may ask for: every declared tool with every
\* answer of its provider, and names that are no tool.
DemoInputs ==
    UNION {{[function_name |-> n, city |-> c, response |-> r, matches |-> <<>>] :
              c \in (IF n = "get_weather" THEN {Missing, "Paris"} ELSE {Missing}),
              r \in DemoResponses(n)} : n \in HttpTools}
      \cup {[function_name |-> "search_knowledge_base", city |-> Missing,
             response |-> [raises |-> FALSE, status_code |-> 200, json |-> FALSE, data |-> EmptySettings],
             matches |-> m] :
              m \in {<<>>, <<"company_info">>, <<"capabilities">>, <<"company_info", "capabilities">>}}
      \cup {[function_name |-> n, city |-> Missing,
             response |-> [raises |-> FALSE, status_code |-> 200, json |-> FALSE, data |-> EmptySettings],
             matches |-> <<>>] :
              n \in {"get_stock_price", "Get_Weather", ""}}

\* result = await self.execute_function(function_name, arguments)
Execute(in, max) ==
    /\ nUp < max
    /\ nUp' = nUp + 1
    /\ cap' = [stage |-> "executed", fn |-> in.function_name, in |-> in, out |-> execute_function(in)]
    /\ UNCHANGED <<openai_ws, client_connections, ep, cstate, tstate, closers, cpump, upump,
                   iter, call, last_user_transcript, pending_user_transcript, loopBlocked,
                   upSent, clog, invoked, faulted, turn, seen, lastEv, nFrames,
                   acked, lastFrame, orphaned, emitted, taken, upstream_session, memory_manager>>

DemoNext == \E in \in DemoInputs : Execute(in, MaxDemoCalls)

DemoSpec == Init /\ [][DemoNext]_vars

\* ---- memory_manager.py: MemoryManager -----------------------------------------

\* ex=86400 of redis_client.set, in ticks of eight hours.
RedisExpiry == 3

\* d[k] = v
Put(d, k, v) == [x \in DOMAIN d \cup {k} |-> IF x = k THEN v ELSE d[x]]

\* The keys of active_sessions, which keeps insertion order.
ActiveIds(m) == {m.active_sessions[i].session_id : i \in 1..Len(m.active_sessions)}

\* _store_session: the session data goes to Redis with an expiry when a
\* Redis client is connected, to memory_store otherwise.
store_session(m, session) ==
    IF m.redis_client
    THEN [m EXCEPT !.redis = Put(@, session.session_id,
                                 [data |-> session, expires |-> m.now + RedisExpiry])]
    ELSE [m EXCEPT !.memory_store = Put(@, session.session_id, session)]

\* The backend holds data for the session: a Redis key that has not expired,
\* or an entry of memory_store.
HasStored(m, session_id) ==
    IF m.redis_client
    THEN session_id \in DOMAIN m.redis /\ m.now < m.redis[session_id].expires
    ELSE session_id \in DOMAIN m.memory_store

StoredData(m, session_id) ==
    IF m.redis_client THEN m.redis[session_id].data ELSE m.memory_store[session_id]

\* _get_session: the active session, or else the stored one, which is
\* reconstructed and put into active_sessions; found says whether a session
\* is returned.
get_session(m, session_id) ==
    IF session_id \in ActiveIds(m) THEN [m |-> m, found |-> TRUE]
    ELSE IF HasStored(m, session_id)
    THEN [m |-> [m EXCEPT !.active_sessions = Append(@, StoredData(m, session_id))], found |-> TRUE]
    ELSE [m |-> m, found |-> FALSE]

\* create_session: a fresh identifier, stored and made active.
create_session(m) ==
    LET session == [session_id |-> m.created + 1, last_activity |-> m.now] IN
    [store_session(m, session) EXCEPT !.active_sessions = Append(@, session),
                                      !.created = @ + 1]

\* add_turn: the session looked up gets last_activity = now and is stored.
add_turn(m, session_id) ==
    LET g == get_session(m, session_id)
        session == [session_id |-> session_id, last_activity |-> m.now] IN
    IF ~g.found THEN g.m
    ELSE store_session([g.m EXCEPT !.active_sessions =
                           [i \in 1..Len(@) |-> IF @[i].session_id = session_id THEN session ELSE @[i]]],
                       session)

\* get_context: changes the manager only through its lookup.
get_context(m, session_id) == get_session(m, session_id).m

\* The loop of cleanup_old_sessions over the active sessions: a session
\* whose last activity is before the cutoff is summarized, stored long-term
\* and deleted.  budget is the number of sessions the summarizer and the
\* vector store accept before one of them raises, which ends the loop.
RECURSIVE Sweep(_, _, _)
Sweep(active, cutoff, budget) ==
    IF active = <<>> THEN <<>>
    ELSE IF Head(active).last_activity < cutoff
    THEN IF budget = 0 THEN active ELSE Sweep(Tail(active), cutoff, budget - 1)
    ELSE <<Head(active)>> \o Sweep(Tail(active), cutoff, budget)

\* cleanup_old_sessions(hours): the value returned is recorded in cleaned
\* when the loop completes.
cleanup_old_sessions(m, hours, budget) ==
    LET kept == Sweep(m.active_sessions, m.now - hours, budget)
        all == Sweep(m.active_sessions, m.now - hours, Len(m.active_sessions))
        gone == ActiveIds(m) \ {kept[i].session_id : i \in 1..Len(kept)} IN
    [m EXCEPT !.active_sessions = kept,
              !.cleaned = IF kept = all THEN Len(m.active_sessions) - Len(kept) ELSE @,
              !.removed = @ \cup gone]

SessionIds == 1..MaxStored

\* The ages cleanup is asked for: 8 hours and the default of 24 hours.
CleanupHours == {1, 3}

\* A step of the memory manager; nothing else in the process changes.
MemoryStep(m) ==
    /\ memory_manager' = m
    /\ UNCHANGED <<openai_ws, client_connections, ep, cstate, tstate, closers, cpump, upump,
                   iter, call, last_user_transcript, pending_user_transcript, loopBlocked,
                   upSent, clog, invoked, faulted, turn, seen, lastEv, nUp, nFrames,
                   acked, lastFrame, cap, orphaned, emitted, taken, upstream_session>>

\* MemoryManager(redis_url): with or without a reachable Redis.
Construct(redis) ==
    /\ ~memory_manager.constructed
    /\ MemoryStep([memory_manager EXCEPT !.constructed = TRUE, !.redis_client = redis])

CreateSession ==
    /\ memory_manager.constructed
    /\ memory_manager.created < MaxStored
    /\ MemoryStep(create_session(memory_manager))

AddTurn(session_id) ==
    /\ memory_manager.constructed
    /\ MemoryStep(add_turn(memory_manager, session_id))

GetContext(session_id) ==
    /\ memory_manager.constructed
    /\ MemoryStep(get_context(memory_manager, session_id))

Cleanup(hours, budget) ==
    /\ memory_manager.constructed
    /\ MemoryStep(cleanup_old_sessions(memory_manager, hours, budget))

\* datetime.now() advances.
Tick ==
    /\ memory_manager.constructed
    /\ memory_manager.now < MaxClock
    /\ MemoryStep([memory_manager EXCEPT !.now = @ + 1])

MemoryNext ==
    \/ \E redis \in BOOLEAN : Construct(redis)
    \/ CreateSession
    \/ \E id \in SessionIds : AddTurn(id)
    \/ \E id \in SessionIds : GetContext(id)
    \/ \E hours \in CleanupHours, budget \in 0..MaxStored : Cleanup(hours, budget)
    \/ Tick

MemorySpec == Init /\ [][MemoryNext]_vars

\* ---- flight_handler.py: FlightSearchHandler.parse_date ------------------------

\* The phrases parse_date looks for, as character sequences.
Today == <<"t", "o", "d", "a", "y">>
Tomorrow == <<"t", "o", "m", "o", "r", "r", "o", "w">>
DayAfterTomorrow == <<"d", "a", "y", " ", "a", "f", "t", "e", "r", " ", "t", "o", "m", "o", "r", "r", "o", "w">>
NextWeek == <<"n", "e", "x", "t", " ", "w", "e", "e", "k">>
NextMonth == <<"n", "e", "x", "t", " ", "m", "o", "n", "t", "h">>

\* timedelta(days=n) added to the day the call is made.
Relative(today, n) == [relative |-> TRUE, date |-> today + n]

\* What parse_date gives for a string with no relative phrase that matches
\* none of its formats and names no month: None.
NoDate == [relative |-> FALSE, date |-> 0]

\* parse_date(date_str) called on day `today`: the relative phrases are
\* tried in this order, each with `phrase in date_str.lower()`.
parse_date(date_str, today) ==
    LET date_str_lower == Lower(date_str) IN
    IF Contains(date_str_lower, Today) THEN Relative(today, 0)
    ELSE IF Contains(date_str_lower, Tomorrow) THEN Relative(today, 1)
    ELSE IF Contains(date_str_lower, DayAfterTomorrow) THEN Relative(today, 2)
    ELSE IF Contains(date_str_lower, NextWeek) THEN Relative(today, 7)
    ELSE IF Contains(date_str_lower, NextMonth) THEN Relative(today, 30)
    ELSE NoDate

\* The strings parsed: the five phrases, two of them as a voice transcript
\* may spell them, and a string that is no date.
DateStrings ==
    {Today, Tomorrow, DayAfterTomorrow, NextWeek, NextMonth,
     <<"N", "e", "x", "t", " ", "W", "e", "e", "k">>,
     <<"D", "a", "y", " ", "a", "f", "t", "e", "r", " ", "t", "o", "m", "o", "r", "r", "o", "w">>,
     <<"s", "o", "o", "n">>}

Days == 0..MaxDay

\* One call of parse_date.
ParseDate(date_str, today, max) ==
    /\ nUp < max
    /\ nUp' = nUp + 1
    /\ cap' = [stage |-> "parsed", fn |-> "parse_date", in |-> [date_str |-> date_str, today |-> today],
               out |-> parse_date(date_str, today)]
    /\ UNCHANGED <<openai_ws, client_connections, ep, cstate, tstate, closers, cpump, upump,
                   iter, call, last_user_transcript, pending_user_transcript, loopBlocked,
                   upSent, clog, invoked, faulted, turn, seen, lastEv, nFrames,
                   acked, lastFrame, orphaned, emitted, taken, upstream_session, memory_manager>>

DateNext == \E date_str \in DateStrings, today \in Days : ParseDate(date_str, today, MaxDateCalls)

DateSpec == Init /\ [][DateNext]_vars

\* One session whose client changes its settings while connected.
UpdateNext ==
    \/ \E s \in Solo : Accept(s)
    \/ \E s \in Solo, cfg \in {"sent", "failed"} : ConnectOk(s, cfg)
    \/ \E s \in Solo, r \in {"ok", "raise"} : ConnectFail(s, r)
    \/ \E s \in Solo, r \in {"ok", "raise"} : SendConnected(s, r)
    \/ \E s \in Solo : TeardownClose(s)
    \/ \E s \in Solo : TeardownDel(s)
    \/ \E s \in Solo : ClientDisconnect(s)
    \/ \E t \in Solo : UpstreamClose(t)
    \/ \E s \in Solo : CPumpStart(s)
    \/ \E s \in Solo : UPumpStart(s)
    \/ \E s \in Solo, settings \in SettingsChoices : UpdateSettings(s, settings, MaxUpdateFrames)

UpdateSpec == Init /\ [][UpdateNext]_vars

\* The event loop runs every task that is ready; a connect attempt and an
\* awaited capability complete (or time out) in bounded time.  The peers
\* are under no obligation to send or to close.
Fairness ==
    \A s \in Solo :
        /\ WF_vars((\E cfg \in {"sent", "failed"} : ConnectOk(s, cfg)) \/ \E r \in {"ok", "raise"} : ConnectFail(s, r))
        /\ WF_vars(\E r \in {"ok", "raise"} : SendConnected(s, r))
        /\ WF_vars(CPumpStart(s))
        /\ WF_vars(UPumpStart(s))
        /\ WF_vars(ClientTextTrigger(s))
        /\ WF_vars(\E o \in {"ok", "error", "raise"} : FcReturn(s, o))
        /\ WF_vars(FcTrigger(s))
        /\ WF_vars(TeardownClose(s))
        /\ WF_vars(TeardownDel(s))

FairSpec == Init /\ [][Next]_vars /\ Fairness

\* ---- properties -------------------------------------------------------------

\* Number of messages of type ty for call c among the first n of log.
RECURSIVE CountMsgs(_, _, _, _)
CountMsgs(log, n, ty, c) ==
    IF n = 0 THEN 0
    ELSE (IF log[n].type = ty /\ log[n].call = c THEN 1 ELSE 0) + CountMsgs(log, n - 1, ty, c)

Outputs(s, c) == CountMsgs(upSent[s], Len(upSent[s]), "function_call_output", c)

\* C1: the continuation trigger (response.create) of a call is sent only
\* after the function output of that call: at every point of what a session
\* sent upstream, each call has had more outputs before a trigger than
\* triggers before it.
C1_OutputBeforeTrigger ==
    \A s \in Sessions : \A i \in 1..Len(upSent[s]) :
        LET m == upSent[s][i] IN
        (m.type = "response.create" /\ m.call # None)
            => CountMsgs(upSent[s], i - 1, "function_call_output", m.call)
                 > CountMsgs(upSent[s], i - 1, "response.create", m.call)

C1_Witness ==
    \E s \in Sessions : \E i \in 1..Len(upSent[s]) :
        /\ upSent[s][i].type = "response.create"
        /\ upSent[s][i].call # None
        /\ i > 1
        /\ upSent[s][i - 1].type = "function_call_output"
        /\ upSent[s][i - 1].call = upSent[s][i].call

\* C2: each call identifier is acted on at most once: however often the
\* arguments-done event of an identifier arrives, the capability is invoked
\* once and one function output is sent.
C2_DispatchedOnce ==
    \A s \in Sessions : \A c \in CallIds : invoked[s][c] <= 1 /\ Outputs(s, c) <= 1


\* C3: in a turn in which a partial transcript was received and
\* speech_stopped came before response.created, the client gets the
\* finalized user transcript exactly once, and gets it before the first
\* assistant transcript delta of the turn.
C3_UserFinalOnceBeforeDelta ==
    \A s \in Sessions :
        (turn[s].started /\ turn[s].partial /\ turn[s].stoppedFirst)
            => /\ turn[s].finals <= 1
               /\ turn[s].delta => (turn[s].finalsAtDelta = 1 /\ turn[s].finals = 1)

\* The upstream pump of s reads an event in this step while the client is
\* connected.
Handled(s) == seen'[s] = seen[s] + 1 /\ cstate[s] = "open"

\* Finalized user transcripts delivered to the client of s in this step.
NewUserFinals(s) == UserFinals(SubSeq(clog'[s], Len(clog[s]) + 1, Len(clog'[s])))

Signals ==
    {"input_audio_buffer.speech_stopped",
     "conversation.item.input_audio_transcription.partial",
     "response.created"}

\* C4 as stated: at the first of the three signals of a turn (speech
\* stopped, partial transcript, response created) the stored transcript is
\* forwarded as final and the pending flag cleared.
C4_FinalizedAtFirstSignal ==
    [][\A s \in Sessions :
          (/\ Handled(s)
           /\ lastEv'[s] \in Signals
           /\ ~turn[s].partial /\ ~turn[s].stopped /\ ~turn[s].created
           /\ last_user_transcript'[s] # "")
              => (NewUserFinals(s) = 1 /\ ~pending_user_transcript'[s])]_vars

\* C4 amended: the stored transcript is forwarded as final at a
\* response.created or an assistant transcript delta read while the pending
\* flag is set and a transcript is stored, and the flag is cleared then;
\* read with the flag clear, these events forward no user transcript;
\* speech_stopped and a partial transcript never forward a final one.
C4_FinalizedAtResponse ==
    [][\A s \in Sessions :
          Handled(s) =>
            LET fin == pending_user_transcript[s] /\ last_user_transcript[s] # ""
                resp == lastEv'[s] \in {"response.created", "response.audio_transcript.delta"}
            IN /\ (resp /\ fin)
                     => /\ NewUserFinals(s) = 1
                        /\ clog'[s][Len(clog[s]) + 1] = UserFinal(last_user_transcript[s])
                        /\ ~pending_user_transcript'[s]
               /\ (resp /\ ~fin)
                     => /\ NewUserFinals(s) = 0
                        /\ pending_user_transcript'[s] = pending_user_transcript[s]
               /\ (lastEv'[s] \in {"input_audio_buffer.speech_stopped",
                                   "conversation.item.input_audio_transcription.partial"})
                     => NewUserFinals(s) = 0]_vars

C4_Witness ==
    \E s \in Sessions :
        /\ lastEv[s] = "response.created"
        /\ turn[s].partial /\ turn[s].stopped
        /\ Len(clog[s]) > 0
        /\ clog[s][Len(clog[s])] = UserFinal(last_user_transcript[s])
        /\ ~pending_user_transcript[s]

\* A capability call of s is in flight: dispatched and not yet finished.
InFlight(s) == upump[s] \in {"fc_wait", "fc_trigger"}

\* C5: once the client transport has closed while a call is in flight, the
\* session eventually is closed, with no call in flight and its upstream
\* transport closed exactly once (unless a capability blocks the event loop).
C5_TeardownComplete ==
    \A s \in Solo :
        [](cstate[s] = "gone" /\ InFlight(s)
              => <>(\/ loopBlocked
                    \/ ep[s] = "closed" /\ ~InFlight(s) /\ Cardinality(closers[s]) = 1))

\* C6: once either transport of a running session has closed, both pumps
\* eventually stop and the session is destroyed: upstream transport closed
\* and registry entry removed (unless a capability blocks the event loop).
C6_EitherCloseTearsDown ==
    \A s \in Solo :
        [](ep[s] = "running" /\ (cstate[s] = "gone" \/ tstate[s] = "closed")
              => <>(\/ loopBlocked
                    \/ /\ cpump[s] = "done" /\ upump[s] = "done"
                       /\ ep[s] = "closed"
                       /\ tstate[s] = "closed"
                       /\ s \notin client_connections))

\* C7: a fault raised while a call is dispatched (decoding its arguments or
\* running its capability) does not end the upstream pump: with both
\* transports usable the pump goes on reading events.
C7_FaultKeepsPump ==
    [][\A s \in Sessions :
          (~faulted[s] /\ faulted'[s] /\ cstate'[s] = "open" /\ UpOpen(iter[s])')
              => upump'[s] = "recv"]_vars

\* C8: whenever an awaited capability finishes, by result, error or
\* exception, while the upstream transport is open, the function output of
\* the call is the next message sent upstream.
C8_OutputOnEveryOutcome ==
    [][\A s \in Sessions :
          (upump[s] = "fc_wait" /\ upump'[s] # "fc_wait" /\ UpOpen(openai_ws))
              => /\ Len(upSent'[s]) = Len(upSent[s]) + 1
                 /\ upSent'[s][Len(upSent'[s])].type = "function_call_output"
                 /\ upSent'[s][Len(upSent'[s])].call = call[s].id]_vars

\* C9: a capability that does not return is timed out: a dispatched call
\* never stays in flight for ever, the pump gets back to reading events or
\* ends.
C9_CallTimesOut ==
    \A s \in Solo : [](upump[s] = "fc_wait" => <>(upump[s] # "fc_wait"))

\* C10: every session keeps, uses and closes only the upstream transport it
\* opened: the handle of a live session holds its own transport, its pump
\* reads from it, its tasks send on it, and no other session's teardown
\* closes it.
C10_OwnTransport ==
    \A s \in Sessions :
        /\ ep[s] \in {"connected", "running"} => openai_ws = s
        /\ iter[s] \in {None, s}
        /\ \A i \in 1..Len(upSent[s]) : upSent[s][i].t = s
        /\ closers[s] \subseteq {s}

\* C11: the upstream handle of a session is null before its handshake has
\* succeeded, non-null while the session is ACTIVE, and null again once its
\* teardown has started.
C11_HandleIffActive ==
    \A s \in Solo :
        /\ ep[s] \in {"idle", "accepted", "failed"} => openai_ws = None
        /\ ep[s] \in {"connected", "running"} => openai_ws # None
        /\ ep[s] \in {"closing", "closed"} => openai_ws = None

\* C12: once a session has been torn down, the upstream transport it opened
\* is closed and close() has been called on it exactly once.
C12_ClosedExactlyOnce ==
    \A s \in Sessions :
        ep[s] = "closed" => (tstate[s] = "closed" /\ Cardinality(closers[s]) = 1)

\* C13: a session is ACTIVE, and its client has been told `connected`, only
\* after its pump has read the session.updated event with which upstream
\* acknowledges the configuration.
C13_ActiveOnlyAfterAck ==
    \A s \in Solo :
        (\/ ep[s] \in {"connected", "running"}
         \/ \E i \in 1..Len(clog[s]) : clog[s][i].type = "connected")
            => acked[s]

\* C14: after a failed upstream connect the session is torn down: the
\* client transport has been closed by the server and the registry holds
\* no entry for the session.
C14_FailedConnectTornDown ==
    \A s \in Solo :
        ep[s] = "failed" => (cstate[s] = "closed" /\ s \notin client_connections)

\* C15: the registry holds an entry only for sessions whose upstream
\* handshake has succeeded and whose teardown has not removed it yet.
C15_RegistryOnlyInitialized ==
    \A s \in Sessions :
        s \in client_connections => ep[s] \in {"connected", "running", "closing"}

\* The client pump of s reads a frame in this step.
FrameRead(s) == nFrames' = nFrames + 1 /\ lastFrame'[s] # "" /\ cpump[s] = "recv"

\* C16: a frame or an upstream message that is not valid JSON is dropped:
\* with the transport it came from still usable, the pump that read it goes
\* on receiving.
C16_MalformedDropped ==
    [][\A s \in Solo :
          /\ (FrameRead(s) /\ lastFrame'[s] = "malformed" /\ cstate'[s] = "open")
                => cpump'[s] = "recv"
          /\ (seen'[s] = seen[s] + 1 /\ lastEv'[s] = "malformed" /\ UpOpen(iter[s])')
                => upump'[s] = "recv"]_vars

\* C17: a frame whose type no branch of handle_client_message recognises has
\* no effect: nothing is sent upstream, nothing reaches the client, no
\* session state changes, and the client pump stays in its receive loop.
C17_UnknownFrameDropped ==
    [][\A s \in Solo :
          (FrameRead(s) /\ lastFrame'[s] = "unknown")
              => /\ cpump'[s] = "recv"
                 /\ UNCHANGED <<upSent, clog, openai_ws, client_connections, ep, cstate, tstate,
                                closers, upump, iter, call, last_user_transcript,
                                pending_user_transcript, invoked, faulted>>]_vars

C17_Witness ==
    \E s \in Solo :
        /\ lastFrame[s] = "unknown"
        /\ nFrames >= 1
        /\ ep[s] = "running" /\ cpump[s] = "recv"
        /\ UpOpen(openai_ws)
        /\ Len(upSent[s]) = 1

\* C18: while the session is configured with server VAD, no
\* input_audio_buffer.commit is sent upstream for an audio chunk received
\* from the client.
C18_NoCommitUnderVad ==
    \A s \in Solo : \A i \in 1..Len(upSent[s]) :
        (TurnDetection = "server_vad" /\ upSent[s][i].res = "audio.input")
            => upSent[s][i].type # "input_audio_buffer.commit"

\* A message the client pump sent upstream (the sends of the connect path
\* and of the function-call dispatch carry no frame type).
IsClientSend(m) == m.call = None /\ m.res # ""

\* C19: among the messages the client pump of a session sent upstream, every
\* conversation.item.create of a text.input is on the session's own upstream
\* transport and is followed at once by the response.create of that frame
\* on the same transport (or that send is still to come, or the transport
\* is no longer usable), and every such response.create directly follows
\* its conversation.item.create.
C19_TextTurnPair ==
    \A s \in Sessions :
        LET cs == SelectSeq(upSent[s], IsClientSend) IN
        \A i \in 1..Len(cs) :
            cs[i].res = "text.input" =>
                /\ cs[i].t = s
                /\ cs[i].type = "conversation.item.create" =>
                      IF i < Len(cs)
                      THEN /\ cs[i + 1].res = "text.input"
                           /\ cs[i + 1].type = "response.create"
                           /\ cs[i + 1].t = cs[i].t
                      ELSE cpump[s] = "text2" \/ ~UpOpen(cs[i].t)
                /\ cs[i].type = "response.create" =>
                      /\ i > 1
                      /\ cs[i - 1].res = "text.input"
                      /\ cs[i - 1].type = "conversation.item.create"

\* Error messages that contain "critical" or "failed" in some letter case,
\* and error messages that contain neither.
SevereSamples == {"Critical", "Op failed", "FAILED"}
BenignSamples == {"fail", "critic", "rate", "Unknown error"}

ApiCalled == cap.stage = "returned" /\ cap.fn = "call_external_api"

\* The status is not a 2xx status.
Non2xx(st) == st < 200 \/ st > 299

\* The step is the return of the evaluated capability to handle_function_call
\* of session s, with the upstream handle open.
Returns(s) == cap.stage = "returned" /\ cap' = NoCap /\ upump[s] = "fc_wait" /\ UpOpen(openai_ws)

\* The step appends the function output of the call of s to what s sent
\* upstream.
OutputSent(s) ==
    /\ Len(upSent'[s]) = Len(upSent[s]) + 1
    /\ upSent'[s][Len(upSent'[s])].type = "function_call_output"
    /\ upSent'[s][Len(upSent'[s])].call = call[s].id

\* C21: for a configured endpoint and any method, a response with a status
\* that is not 2xx makes call_api return a failure whose message contains
\* the status code, and the function output of the call is still sent
\* upstream.
C21_Non2xxIsFailureWithStatus ==
    [][\A s \in Sessions :
          (ApiCalled /\ cap.in.configured /\ cap.in.endpoint # Flights
             /\ Non2xx(cap.in.resp.status) /\ Returns(s))
              => /\ IsFailure(cap.out.result)
                 /\ \E i \in 1..Len(cap.out.result.error) :
                        cap.out.result.error[i] = StatusText(cap.in.resp.status)
                 /\ OutputSent(s)]_vars

\* The capability evaluated last is a call of execute_workflow.
WorkflowCalled == cap.stage = "returned" /\ cap.fn = "execute_workflow"

\* C22: execute_workflow called with a workflow type that is none of the
\* four known ones returns a success whose steps_executed is empty, never a
\* failure.
C22_UnknownWorkflowEmpty ==
    (WorkflowCalled /\ cap.in \notin DOMAIN workflows)
        => /\ ~IsFailure(cap.out.result)
           /\ cap.out.result.status = "completed"
           /\ cap.out.result.steps_executed = <<>>

C22_Witness ==
    /\ WorkflowCalled
    /\ cap.in = "nonexistent_workflow"
    /\ cap.out.result.steps_executed = <<>>
    /\ cap.out.result.status = "completed"

\* The capability evaluated last is a call of search_rag.
SearchCalled == cap.stage = "sent" /\ cap.fn = "search_knowledge_base"

\* The index is unavailable: no store, or a similarity search that was made
\* raised.
IndexUnavailable(in) ==
    \/ ~in.store
    \/ in.first.raises
    \/ (in.first.docs = <<>> /\ in.retry.raises)

\* Neither the search nor its retry with the first words finds a document.
NoDocuments(in) ==
    /\ in.store
    /\ ~in.first.raises /\ in.first.docs = <<>>
    /\ ~in.retry.raises /\ in.retry.docs = <<>>

\* C23: search_rag returns a failure only when the index is unavailable;
\* when the search and its retry find no document it returns a success with
\* an empty result list, count 0 and a message.
C23_FailureOnlyWithoutIndex ==
    SearchCalled =>
        /\ IsFailure(cap.out.result) => IndexUnavailable(cap.in)
        /\ NoDocuments(cap.in)
             => /\ ~IsFailure(cap.out.result)
                /\ cap.out.result.results = <<>>
                /\ cap.out.result.count = 0
                /\ Get(cap.out.result, "message", <<>>) # <<>>

C23_Witness ==
    /\ SearchCalled
    /\ NoDocuments(cap.in)
    /\ cap.out.requests = 2
    /\ cap.out.result.count = 0

\* The smaller of two numbers.
Min(a, b) == IF a < b THEN a ELSE b

\* C24: every search result with count > 0 carries a summary that is not
\* empty and contains the content of the two top-ranked results (of the one
\* result when there is only one).
C24_SummaryQuotesTopExcerpts ==
    (SearchCalled /\ Get(cap.out.result, "count", 0) > 0)
        => LET r == cap.out.result IN
           /\ Get(r, "summary", <<>>) # <<>>
           /\ \A i \in 1..Min(2, r.count) : Contains(r.summary, r.results[i].content)

C24_Witness ==
    /\ SearchCalled
    /\ Get(cap.out.result, "count", 0) = 2
    /\ cap.out.result.results[2].content = Guarantee
    /\ Contains(cap.out.result.summary, Guarantee)

\* The response is a 200 whose body is a JSON object with a "message".
ImageBody(resp) ==
    resp.status = 200 /\ IsJson(resp.text) /\ "message" \in DOMAIN JsonLoads(resp.text)

\* C25: when the image-bearing endpoint ("dog", configured) answers a
\* request with the body {"message": U}, the result handed back for the
\* call is an image envelope with url U and a description that is not empty.
C25_ImageEnvelope ==
    (ApiCalled /\ cap.in.configured /\ cap.in.endpoint = "dog"
       /\ Upper(cap.in.method) \in {"GET", "POST"} /\ ImageBody(cap.in.resp))
        => LET out == result_output(cap.out.result) IN
           /\ Get(out, "type", "") = "image"
           /\ Get(out, "url", "") = JsonLoads(cap.in.resp.text).message
           /\ Get(out, "description", "") # ""

\* The flight search is called with no credentials: the api_config entry
\* holds none, and no client or handler was set up from earlier ones.
FlightsUnconfigured ==
    /\ ApiCalled
    /\ cap.in.endpoint = Flights /\ cap.in.configured
    /\ ~cap.in.creds /\ ~cap.in.client /\ ~cap.in.handler

\* C28: the flight search invoked without provider credentials returns an
\* error result that says it is not configured and makes no request to the
\* provider; the result goes upstream as the function output of the call.
C28_UnconfiguredFlightSearch ==
    [][\A s \in Sessions :
          (FlightsUnconfigured /\ Returns(s))
              => /\ IsFailure(cap.out.result)
                 /\ Contains(cap.out.result.error, <<"not", "configured">>)
                 /\ cap.out.requests = 0
                 /\ OutputSent(s)
                 /\ upSent'[s][Len(upSent'[s])].res = "error"]_vars

C28_Witness ==
    /\ FlightsUnconfigured
    /\ cap.out.result.error = NotConfiguredMsg
    /\ cap.out.requests = 0
    /\ \E s \in Sessions : upump[s] = "fc_wait" /\ UpOpen(openai_ws)

\* ---- properties of the relay, continued --------------------------------------

\* The finally block of websocket_endpoint has been entered for s.
TornDown(s) == ep[s] \in {"closing", "closed"}

Active(s) == ep[s] = "running" /\ cstate[s] = "open" /\ tstate[s] = "open"

\* C27: an update_settings frame of an ACTIVE session makes exactly one
\* session.update go out on the upstream transport of that session; no
\* transport is closed or replaced and the session stays ACTIVE.
C27_SettingsUpdateInPlace ==
    [][\A s \in Sessions :
          (Active(s) /\ \E f \in SettingsFrames : ClientFrame(s, f, MaxSettingsFrames))
              => /\ Len(upSent'[s]) = Len(upSent[s]) + 1
                 /\ upSent'[s][Len(upSent'[s])].type = "session.update"
                 /\ upSent'[s][Len(upSent'[s])].t = s
                 /\ tstate' = tstate
                 /\ openai_ws' = openai_ws
                 /\ Active(s)']_vars

\* The number of messages of type ty among the first n of the client log of s.
CountClient(s, n, ty) == Cardinality({i \in 1..n : clog[s][i].type = ty})

\* C29: for every dispatched call the client is first told of the
\* invocation, then the capability is invoked, the output and the trigger
\* are sent upstream, and then the client is told of the result: a step
\* that invokes a capability leaves function_call as the last message of the
\* client, the step that sends the trigger delivers function.result to a
\* connected client, and no function.result precedes its function_call.
C29_NotifyInvokeOutputTriggerResult ==
    [][\A s \in Solo :
          /\ (cstate[s] = "open" /\ \E c \in CallIds : invoked'[s][c] = invoked[s][c] + 1)
                => (clog'[s] # <<>> /\ clog'[s][Len(clog'[s])].type = "function_call")
          /\ (cstate[s] = "open" /\ FcTrigger(s) /\ Len(upSent'[s]) = Len(upSent[s]) + 1)
                => (/\ upSent'[s][Len(upSent'[s])].type = "response.create"
                    /\ Len(clog'[s]) = Len(clog[s]) + 1
                    /\ clog'[s][Len(clog'[s])].type = "function.result")
          /\ \A n \in 1..Len(clog'[s]) :
                CountClient(s, n, "function.result")' <= CountClient(s, n, "function_call")']_vars

\* The delta messages the client of s has received, in order.
IsDeltaMsg(m) == m.type \in {"text.response", "audio.response"}
ClientDeltas(s) == SelectSeq(clog[s], IsDeltaMsg)

\* The message a delta is forwarded as.
Forwarded(e) ==
    CMsg(IF e.type = "response.text.delta" THEN "text.response" ELSE "audio.response", e.text, "")

\* C30: every delta upstream emits is forwarded to the client of the
\* session as one message, in order: with the client connected, the deltas
\* it has received are the ones the pump has read, one message each, in
\* order, and no delta stays unread on an open transport because the pump
\* has ended.
C30_DeltasForwardedInOrder ==
    \A s \in Solo :
        cstate[s] = "open"
            => /\ ClientDeltas(s) = [i \in 1..taken[s] |-> Forwarded(emitted[s][i])]
               /\ (tstate[s] = "open" /\ upump[s] = "done") => taken[s] = Len(emitted[s])

\* C31: once the stored user transcript has been finalized and forwarded,
\* a later turn in which no partial transcript arrives forwards no
\* finalized user transcript at its speech_stopped or response.created.
C31_StaleTranscriptNotForwarded ==
    [][\A s \in Sessions :
          (/\ Handled(s)
           /\ turn[s].started /\ turn[s].settled /\ ~turn[s].partial
           /\ lastEv'[s] \in {"input_audio_buffer.speech_stopped", "response.created"})
              => NewUserFinals(s) = 0]_vars

\* C32: with two sessions running side by side, whatever the tasks of one
\* session send upstream (client frames relayed, function-call outputs and
\* triggers) goes to that session's own upstream transport and never to
\* the other's, and the pump that delivers upstream events to a session's
\* client never reads the other session's transport.
C32_SessionsIsolated ==
    \A a \in Sessions : \A b \in Sessions \ {a} :
        (ep[a] = "running" /\ ep[b] = "running")
            => /\ \A i \in 1..Len(upSent[a]) : upSent[a][i].by = a => upSent[a][i].t # b
               /\ iter[a] # b

\* The whitespace-delimited tokens of query q, as the intervals of positions
\* they occupy.
Runs(q) ==
    {r \in (1..Len(q)) \X (1..Len(q)) :
        /\ r[1] <= r[2]
        /\ \A k \in r[1]..r[2] : ~IsSpace(q[k])
        /\ (r[1] = 1 \/ IsSpace(q[r[1] - 1]))
        /\ (r[2] = Len(q) \/ IsSpace(q[r[2] + 1]))}

\* The n-th token of q.
Token(q, n) ==
    LET r == CHOOSE x \in Runs(q) : Cardinality({y \in Runs(q) : y[1] < x[1]}) = n - 1
    IN SubSeq(q, r[1], r[2])

\* The first three tokens of q (all of them when there are fewer).
FirstTokens(q) == [n \in 1..Min(3, Cardinality(Runs(q))) |-> Token(q, n)]

\* The first search of the call found nothing (and did not raise).
FirstEmpty(in) == in.store /\ ~in.first.raises /\ in.first.docs = <<>>

\* The searches made are the query alone, or the query and then one retry.
RetryDiscipline ==
    /\ FirstEmpty(cap.in) => Len(cap.out.searches) = 2
    /\ ~FirstEmpty(cap.in) => Len(cap.out.searches) <= 1
    /\ Len(cap.out.searches) >= 1 => cap.out.searches[1] = cap.in.query
    /\ (cap.in.store /\ ~cap.in.first.raises /\ cap.in.first.docs # <<>>)
          => /\ cap.out.result.count = Len(cap.in.first.docs)
             /\ \A i \in 1..Len(cap.in.first.docs) :
                   cap.out.result.results[i].content = cap.in.first.docs[i].page_content

\* C34 as stated: a second similarity search is made only when the first
\* returned no hit, and then once, with the first three whitespace-delimited
\* tokens of the query; with a hit, the result is built from the first
\* search.
C34_RetryWithFirstThreeTokens ==
    SearchCalled =>
        /\ RetryDiscipline
        /\ FirstEmpty(cap.in) => cap.out.searches[2] = Join(FirstTokens(cap.in.query))

\* C34 amended: the retry uses the first three whitespace-delimited tokens
\* of the lower-cased query.
C34_RetryWithLoweredTokens ==
    SearchCalled =>
        /\ RetryDiscipline
        /\ FirstEmpty(cap.in) => cap.out.searches[2] = Join(FirstTokens(Lower(cap.in.query)))

C34_Witness ==
    /\ SearchCalled
    /\ FirstEmpty(cap.in)
    /\ Cardinality(Runs(cap.in.query)) > 3
    /\ cap.out.searches[2] # cap.in.query
    /\ cap.out.searches[2] = <<"i", "s", " ", "i", "t", " ", "o", "k">>
    /\ ~cap.in.retry.raises
    /\ cap.in.retry.docs # <<>>

\* The four workflows and the steps each is documented to run, in order.
FixedSteps(wt) ==
    CASE wt = "customer_onboarding" ->
           <<"verify_identity", "create_account", "send_welcome_email", "schedule_followup">>
      [] wt = "support_ticket" ->
           <<"categorize_issue", "check_knowledge_base", "create_ticket", "assign_agent",
             "send_confirmation">>
      [] wt = "order_processing" ->
           <<"validate_order", "check_inventory", "process_payment", "generate_invoice",
             "arrange_shipping">>
      [] wt = "data_analysis" ->
           <<"fetch_data", "clean_data", "run_analysis", "generate_report">>

KnownWorkflows == {"customer_onboarding", "support_ticket", "order_processing", "data_analysis"}

\* C35: for each of the four known workflow types execute_workflow returns
\* status completed and steps_executed equal to the workflow's step list:
\* its 4 or 5 steps, each once, in the defined order.
C35_KnownWorkflowRunsAllSteps ==
    (WorkflowCalled /\ cap.in \in KnownWorkflows)
        => LET done == cap.out.result.steps_executed IN
           /\ cap.out.result.status = "completed"
           /\ done = FixedSteps(cap.in)
           /\ Len(done) \in {4, 5}
           /\ \A i, j \in 1..Len(done) : done[i] = done[j] => i = j

C35_Witness ==
    /\ WorkflowCalled
    /\ cap.in = "support_ticket"
    /\ Len(cap.out.result.steps_executed) = 5
    /\ cap.out.result.steps_executed[5] = "send_confirmation"

\* C36: an update_settings frame that is relayed leaves every setting it
\* omits (voice, temperature, instructions) of the upstream session as it
\* was.
C36_OmittedSettingsKept ==
    [][\A s \in Solo : \A settings \in SettingsChoices :
          (UpdateSettings(s, settings, MaxUpdateFrames) /\ Len(upSent'[s]) = Len(upSent[s]) + 1)
              => \A k \in {"voice", "temperature", "instructions"} \ DOMAIN settings :
                    upstream_session'[openai_ws][k] = upstream_session[openai_ws][k]]_vars

\* The orchestrator executed a function last.
Executed == cap.stage = "executed"

\* The result is the "Unknown function" error.
IsUnknownFunction(r) ==
    "error" \in DOMAIN r /\ Len(r.error) >= 2 /\ SubSeq(r.error, 1, 2) = <<"Unknown", "function">>

\* C37: execute_function returns the "Unknown function" error exactly for
\* names that are not declared tools; a declared tool whose provider
\* answers with a status other than 200 yields an error that is not the
\* "Unknown function" one.
C37_UnknownFunctionIffUndeclared ==
    Executed =>
        /\ IsUnknownFunction(cap.out) <=> cap.fn \notin DeclaredTools
        /\ (cap.fn \in HttpTools /\ ~cap.in.response.raises /\ cap.in.response.status_code # 200)
              => ("error" \in DOMAIN cap.out /\ ~IsUnknownFunction(cap.out))

\* The sessions of m whose last activity is older than the cutoff of a
\* cleanup asked for `hours`.
Stale(m, hours) ==
    {m.active_sessions[i].session_id :
        i \in {j \in 1..Len(m.active_sessions) : m.active_sessions[j].last_activity < m.now - hours}}

\* C38: a cleanup that returns removes from the active sessions exactly
\* those whose last activity is older than the cutoff and returns their
\* number, and a session removed by cleanup is never active again, whatever
\* lookups (get_context, add_turn) follow.
C38_RemovedStaysRemoved ==
    [][/\ \A hours \in CleanupHours :
             Cleanup(hours, MaxStored)
                => /\ ActiveIds(memory_manager') = ActiveIds(memory_manager) \ Stale(memory_manager, hours)
                   /\ memory_manager'.cleaned = Cardinality(Stale(memory_manager, hours))
       /\ ActiveIds(memory_manager') \cap memory_manager'.removed = {}]_vars

\* The offset in days each relative date phrase stands for.
PhraseOffset(phrase) ==
    CASE phrase = Today -> 0
      [] phrase = Tomorrow -> 1
      [] phrase = DayAfterTomorrow -> 2
      [] phrase = NextWeek -> 7
      [] phrase = NextMonth -> 30

\* C39: parse_date maps each of the phrases "today", "tomorrow", "day after
\* tomorrow", "next week" and "next month", in any letter case, to the day
\* of the call plus 0, 1, 2, 7 and 30 days.
C39_RelativeDateOffsets ==
    (cap.stage = "parsed"
       /\ Lower(cap.in.date_str) \in {Today, Tomorrow, DayAfterTomorrow, NextWeek, NextMonth})
        => /\ cap.out.relative
           /\ cap.out.date = cap.in.today + PhraseOffset(Lower(cap.in.date_str))

====
